---- MODULE Spec2Model ----
(***************************************************************************)
(* Notebook document engine of the notebook/chat application:              *)
(*   - the cell store (cells, cellCounter) with addCell / deleteCell,      *)
(*   - its persistence in localStorage (saveNotebookToMemory /             *)
(*     loadNotebookFromMemory),                                            *)
(*   - the interchange-format parser parseNotebookFile and the export      *)
(*     downloadNotebook,                                                   *)
(*   - the proactive suggestion memory (updateSuggestionScore,             *)
(*     selectSuggestion, triggerProactiveSuggestion).                      *)
(* Text is a sequence of one-character strings, so that trim, split,       *)
(* startsWith, endsWith and includes are computed as the code computes     *)
(* them.  A cell id `cell-N` is the number N.                              *)
(***************************************************************************)
EXTENDS Integers, Sequences, FiniteSets, TLC

VARIABLES
  \* ---- cell store and its persistence (part_000 904-958, 1201-1252)
  cells,              \* const cells: Cell[]
  cellCounter,        \* let cellCounter
  monaco,             \* let monaco: loaded editor library or undefined
  monacoInstances,    \* editor views by cell id (never populated by this code)
  cellDebounceTimers, \* Map<cell id, timer id>
  timeouts,           \* host: pending setTimeout tasks of handleCellCodeChange
  attachRetryTimers,  \* cell ids with a pending attachEditorListeners retry
  localStorage,       \* the two storage keys of the engine
  quotaExceeded,      \* environment: localStorage.setItem throws
  pendingAddCells,    \* addCell calls suspended at `await loader.init()`
  loadState,          \* position of loadNotebookFromMemory
  hist,               \* history of the store (ids assigned, removed, saved)
  \* ---- parseNotebookFile (index.tsx 376-479)
  parser,
  \* ---- suggestion memory (part_000 17-59, 996-1148)
  sug,
  \* ---- chat: aiConsciousness and the guessing game (part_000 60-150, 691-800)
  chat

vars == <<cells, cellCounter, monaco, monacoInstances, cellDebounceTimers,
          timeouts, attachRetryTimers, localStorage, quotaExceeded, pendingAddCells,
          loadState, hist, parser, sug, chat>>

storeVars == <<cells, cellCounter, monaco, monacoInstances, cellDebounceTimers,
               timeouts, attachRetryTimers, localStorage, quotaExceeded, pendingAddCells,
               loadState, hist>>

----------------------------------------------------------------------------
(* Bounds *)

MaxCounter == 3     \* handlers call addCell while cellCounter is below it
MaxLoads == 1     \* loadNotebookFromMemory is called once, by main (part_000 1669)

----------------------------------------------------------------------------
(* JavaScript values *)

Undefined == "undefined"

JUndef == [t |-> "undef"]
JNull == [t |-> "null"]
JStr(s) == [t |-> "str", v |-> s]
JNum(n) == [t |-> "num", v |-> n]
JArr(a) == [t |-> "arr", v |-> a]
JObj(f) == [t |-> "obj", v |-> f]

\* property read `x.key`: throws on null and undefined, is undefined for a
\* missing key and for a primitive
CanRead(x) == x.t \notin {"null", "undef"}

GetProp(x, key) ==
  IF x.t = "obj" /\ key \in DOMAIN x.v THEN x.v[key] ELSE JUndef

\* truthiness of a decoded JSON value
Truthy(x) ==
  CASE x.t \in {"null", "undef"} -> FALSE
    [] x.t = "str" -> x.v # <<>>
    [] x.t = "num" -> x.v # 0
    [] OTHER -> TRUE

NOTEBOOK_MEMORY_KEY == "gemini-notebook-memory"
SUGGESTION_MEMORY_KEY == "gemini-notebook-suggestions"

\* a storage slot: no item, or a string; a string is either the JSON text of
\* a value or text that JSON.parse rejects (the empty string included)
NoItem == [kind |-> "none"]
JsonText(v) == [kind |-> "json", value |-> v]
BadText(s) == [kind |-> "text", text |-> s]

\* `if (savedState)`: null and the empty string are falsy
ItemTruthy(item) ==
  CASE item.kind = "none" -> FALSE
    [] item.kind = "text" -> item.text # ""
    [] OTHER -> TRUE

\* JSON.parse: a value, or a SyntaxError
JSONparse(item) ==
  IF item.kind = "json" THEN [ok |-> TRUE, value |-> item.value]
  ELSE [ok |-> FALSE, value |-> JUndef]

----------------------------------------------------------------------------
(* Sequences *)

Range(s) == {s[i] : i \in DOMAIN s}

RECURSIVE SeqFilter(_, _)
SeqFilter(s, keep) ==
  IF s = <<>> THEN <<>>
  ELSE IF Head(s) \in keep THEN <<Head(s)>> \o SeqFilter(Tail(s), keep)
       ELSE SeqFilter(Tail(s), keep)

RemoveAt(s, i) == SubSeq(s, 1, i - 1) \o SubSeq(s, i + 1, Len(s))

\* cells.findIndex((c) => c.id === cellId), 1-based, 0 when absent
FindIndex(cs, cellId) ==
  IF \E i \in DOMAIN cs : cs[i].id = cellId
  THEN CHOOSE i \in DOMAIN cs :
         cs[i].id = cellId /\ \A j \in 1..(i - 1) : cs[j].id # cellId
  ELSE 0

----------------------------------------------------------------------------
(* Cell store: saveNotebookToMemory, addCell, deleteCell                   *)
(* The operators below act on a record S of the store's variables, so that *)
(* a handler that calls another handler is one composition.                *)

None == [ok |-> FALSE, view |-> <<>>]
Some(v) == [ok |-> TRUE, view |-> v]

\* what a snapshot keeps of a cell, apart from its id
CellView(c) ==
  [type |-> c.type, code |-> c.code, mode |-> c.mode, outputs |-> c.outputs]

View(cs) == [i \in DOMAIN cs |-> CellView(cs[i])]

Ids(cs) == [i \in DOMAIN cs |-> cs[i].id]

\* variant: the snapshot leaves the outputs out
StringifyCellNoOutputs(c, instances) ==
  LET keys == IF c.mode = Undefined THEN {"id", "type", "code"}
              ELSE {"id", "type", "code", "mode"}
  IN JObj([k \in keys |->
            CASE k = "id" -> JStr(c.id)
              [] k = "type" -> JStr(c.type)
              [] k = "code" -> JStr(c.code)
              [] OTHER -> JStr(c.mode)])

\* variant: the snapshot takes the stored content of every cell
StringifyCellStoredCode(c, instances) ==
  LET keys == IF c.mode = Undefined THEN {"id", "type", "code", "outputs"}
              ELSE {"id", "type", "code", "mode", "outputs"}
  IN JObj([k \in keys |->
            CASE k = "id" -> JStr(c.id)
              [] k = "type" -> JStr(c.type)
              [] k = "code" -> JStr(c.code)
              [] k = "mode" -> JStr(c.mode)
              [] OTHER -> JArr(c.outputs)])

\* one element of `cells.map(...)` after JSON.stringify: a key whose value is
\* undefined (the mode of a js cell) is left out of the text
StringifyCell(c, instances) ==
  LET keys == IF c.mode = Undefined THEN {"id", "type", "code", "outputs"}
              ELSE {"id", "type", "code", "mode", "outputs"}
      code == IF c.id \in DOMAIN instances THEN instances[c.id] ELSE c.code
  IN JObj([k \in keys |->
            CASE k = "id" -> JStr(c.id)
              [] k = "type" -> JStr(c.type)
              [] k = "code" -> JStr(code)
              [] k = "mode" -> JStr(c.mode)
              [] OTHER -> JArr(c.outputs)])

NotebookState(cs, instances) ==
  JObj([cells |-> JArr([i \in DOMAIN cs |-> StringifyCell(cs[i], instances)])])

\* variant: the error of a failing setItem is not caught
saveNotebookToMemoryUncaught(S) ==
  IF S.quota THEN [S EXCEPT !.hist.uncaught = TRUE]
  ELSE [S EXCEPT
          !.ls[NOTEBOOK_MEMORY_KEY] =
             JsonText(NotebookState(S.cells, S.instances)),
          !.hist.lastSaved = Some(View(S.cells))]

saveNotebookToMemory(S) ==
  IF S.quota THEN S    \* setItem throws, caught and logged
  ELSE [S EXCEPT
          !.ls[NOTEBOOK_MEMORY_KEY] =
             JsonText(NotebookState(S.cells, S.instances)),
          !.hist.lastSaved = Some(View(S.cells))]

removeNotebookItem(S) ==
  [S EXCEPT !.ls[NOTEBOOK_MEMORY_KEY] = NoItem, !.hist.lastSaved = None]

\* attachEditorListeners: the listener goes on the cell's editor view; without
\* a view the call is made again by a timer 200 ms later.  The timer is held
\* by no variable of the code: nothing can clear it.
attachEditorListeners(S, cellId) ==
  IF cellId \in DOMAIN S.instances THEN S
  ELSE [S EXCEPT !.retries = @ \cup {cellId}]

\* the end of addCell, after the await: listeners for a code cell, then the save
addCellEnd(S, cellId, type) ==
  saveNotebookToMemory(IF type = "js" THEN attachEditorListeners(S, cellId) ELSE S)

\* variant: the id is taken from the length of the list, not from the counter
addCellIdFromLength(S, codeArg, typeArg, renderMd, outputsArg, byLoad) ==
  LET code == IF codeArg.t = "undef" THEN <<>> ELSE codeArg.v
      type == IF typeArg.t = "undef" THEN "js" ELSE typeArg.v
      cellId == Len(S.cells)
      S1 == [S EXCEPT !.cellCounter = @ + 1]
      initialOutputs == IF outputsArg.t = "arr" THEN outputsArg.v ELSE <<>>
      newCell ==
        [id |-> cellId, type |-> type, code |-> code, outputs |-> initialOutputs,
         mode |-> IF type = "md" THEN (IF renderMd THEN "render" ELSE "edit")
                  ELSE Undefined,
         isOutputVisible |-> Len(initialOutputs) > 0,
         isExecuted |-> Len(initialOutputs) > 0,
         lastExecutedContent |-> IF type = "js" THEN JStr(code) ELSE JUndef]
      S2 == [S1 EXCEPT !.cells = Append(@, newCell),
                       !.hist.inserted = Append(@, cellId)]
  IN IF outputsArg.t = "null" THEN [S |-> S1, outcome |-> "threw"]
     ELSE IF type = "js" /\ ~S2.monaco
          THEN [S |-> [S2 EXCEPT !.pend = Append(@, [id |-> cellId, byLoad |-> byLoad])],
                outcome |-> "suspended"]
          ELSE [S |-> addCellEnd(S2, cellId, type), outcome |-> "done"]

\* variant: a cell inserted with outputs is not marked as executed
addCellNeverExecuted(S, codeArg, typeArg, renderMd, outputsArg, byLoad) ==
  LET code == IF codeArg.t = "undef" THEN <<>> ELSE codeArg.v
      type == IF typeArg.t = "undef" THEN "js" ELSE typeArg.v
      cellId == S.cellCounter
      S1 == [S EXCEPT !.cellCounter = @ + 1]
  IN IF outputsArg.t = "null" THEN [S |-> S1, outcome |-> "threw"]
     ELSE
       LET initialOutputs == IF outputsArg.t = "undef" THEN <<>> ELSE outputsArg.v
           newCell ==
             [id |-> cellId, type |-> type, code |-> code,
              outputs |-> initialOutputs,
              mode |-> IF type = "md"
                       THEN (IF renderMd THEN "render" ELSE "edit")
                       ELSE Undefined,
              isOutputVisible |-> Len(initialOutputs) > 0,
              isExecuted |-> FALSE,
              lastExecutedContent |-> IF type = "js" THEN JStr(code) ELSE JUndef]
           S2 == [S1 EXCEPT !.cells = Append(@, newCell),
                            !.hist.inserted = Append(@, cellId)]
       IN IF type = "js" /\ ~S2.monaco
          THEN [S |-> [S2 EXCEPT !.pend = Append(@, [id |-> cellId, byLoad |-> byLoad])],
                outcome |-> "suspended"]
          ELSE [S |-> addCellEnd(S2, cellId, type), outcome |-> "done"]

\* addCell up to its first suspension.  The arguments are JavaScript values;
\* an undefined argument takes the parameter's default.  outcome is "done"
\* (ran to its end, save included), "suspended" (at await loader.init()) or
\* "threw" (initialOutputs.length on null, before the push).
addCell(S, codeArg, typeArg, renderMd, outputsArg, byLoad) ==
  LET code == IF codeArg.t = "undef" THEN <<>> ELSE codeArg.v
      type == IF typeArg.t = "undef" THEN "js" ELSE typeArg.v
      cellId == S.cellCounter
      S1 == [S EXCEPT !.cellCounter = @ + 1]
  IN IF outputsArg.t = "null" THEN [S |-> S1, outcome |-> "threw"]
     ELSE
       LET initialOutputs == IF outputsArg.t = "undef" THEN <<>> ELSE outputsArg.v
           newCell ==
             [id |-> cellId, type |-> type, code |-> code,
              outputs |-> initialOutputs,
              mode |-> IF type = "md"
                       THEN (IF renderMd THEN "render" ELSE "edit")
                       ELSE Undefined,
              isOutputVisible |-> Len(initialOutputs) > 0,
              isExecuted |-> Len(initialOutputs) > 0,
              lastExecutedContent |-> IF type = "js" THEN JStr(code) ELSE JUndef]
           S2 == [S1 EXCEPT !.cells = Append(@, newCell),
                            !.hist.inserted = Append(@, cellId)]
       IN IF type = "js" /\ ~S2.monaco
          THEN [S |-> [S2 EXCEPT !.pend = Append(@, [id |-> cellId, byLoad |-> byLoad])],
                outcome |-> "suspended"]
          ELSE [S |-> addCellEnd(S2, cellId, type), outcome |-> "done"]

\* clearTimeout(timerId)
clearTimeout(pending, timerId) == {t \in pending : t.id # timerId}

\* the cell's debounce timer is cleared and its map entry deleted
clearDebounce(S, cellId) ==
  IF cellId \in DOMAIN S.timers
  THEN [S EXCEPT !.timeouts = clearTimeout(@, S.timers[cellId]),
                 !.timers = [k \in (DOMAIN @) \ {cellId} |-> @[k]]]
  ELSE S

\* variant: the removal is not followed by a save
deleteCellNoSave(S, cellId) ==
  LET S1 == clearDebounce(S, cellId)
      cellIndex == FindIndex(S1.cells, cellId)
  IN IF cellIndex > 0
     THEN [S1 EXCEPT !.cells = RemoveAt(@, cellIndex),
                     !.instances = [k \in (DOMAIN @) \ {cellId} |-> @[k]],
                     !.hist.removed = @ \cup {cellId}]
     ELSE S1

\* variant: the notebook is saved also when the id was not found
deleteCellAlwaysSaves(S, cellId) ==
  LET S1 == clearDebounce(S, cellId)
      cellIndex == FindIndex(S1.cells, cellId)
  IN IF cellIndex > 0
     THEN saveNotebookToMemory(
            [S1 EXCEPT !.cells = RemoveAt(@, cellIndex),
                       !.instances = [k \in (DOMAIN @) \ {cellId} |-> @[k]],
                       !.hist.removed = @ \cup {cellId}])
     ELSE saveNotebookToMemory(S1)

\* variant: the removed cell's place is filled with the last cell
deleteCellSwapRemove(S, cellId) ==
  LET S1 == clearDebounce(S, cellId)
      cellIndex == FindIndex(S1.cells, cellId)
      n == Len(S1.cells)
  IN IF cellIndex > 0
     THEN saveNotebookToMemory(
            [S1 EXCEPT !.cells = [i \in 1..(n - 1) |->
                                    IF i = cellIndex THEN S1.cells[n] ELSE S1.cells[i]],
                       !.instances = [k \in (DOMAIN @) \ {cellId} |-> @[k]],
                       !.hist.removed = @ \cup {cellId}])
     ELSE S1

deleteCell(S, cellId) ==
  LET S1 == clearDebounce(S, cellId)
      cellIndex == FindIndex(S1.cells, cellId)
  IN IF cellIndex > 0
     THEN saveNotebookToMemory(
            [S1 EXCEPT !.cells = RemoveAt(@, cellIndex),
                       !.instances = [k \in (DOMAIN @) \ {cellId} |-> @[k]],
                       !.hist.removed = @ \cup {cellId}])
     ELSE S1

----------------------------------------------------------------------------
(* loadNotebookFromMemory *)

\* the save at the end of the addCell of record i writes the notebook key
\* while records are still to be restored
WritesPartial(S, records, i) == ~S.quota /\ i < Len(records)

\* the `for ... await addCell(...)` loop from record i on; it stops at the
\* first addCell that suspends, at a throw (caught by the load: the key is
\* removed, false is returned) or at the end of the records (true); partial
\* tells whether the notebook key was written before the last record
RECURSIVE LoadLoop(_, _, _)
LoadLoop(S, records, i) ==
  IF i > Len(records)
  THEN [S |-> S, pc |-> "returned", result |-> TRUE, next |-> i, partial |-> FALSE]
  ELSE
    LET cellData == records[i]
    IN IF ~CanRead(cellData)
       THEN [S |-> removeNotebookItem(S), pc |-> "returned", result |-> FALSE, next |-> i,
             partial |-> FALSE]
       ELSE
         LET m == GetProp(cellData, "mode")
             r == addCell(S, GetProp(cellData, "code"), GetProp(cellData, "type"),
                          m.t = "str" /\ m.v = "render",
                          GetProp(cellData, "outputs"), TRUE)
         IN CASE r.outcome = "threw" ->
                   [S |-> removeNotebookItem(r.S), pc |-> "returned",
                    result |-> FALSE, next |-> i, partial |-> FALSE]
              [] r.outcome = "suspended" ->
                   [S |-> r.S, pc |-> "awaiting", result |-> FALSE, next |-> i + 1,
                    partial |-> FALSE]
              [] OTHER ->
                   [LoadLoop(r.S, records, i + 1) EXCEPT
                      !.partial = @ \/ WritesPartial(S, records, i)]

\* loadNotebookFromMemory up to its first suspension
loadNotebookFromMemory(S) ==
  LET savedState == S.ls[NOTEBOOK_MEMORY_KEY]
      none == [S |-> S, pc |-> "returned", result |-> FALSE, next |-> 0,
               records |-> <<>>, partial |-> FALSE]
  IN IF ~ItemTruthy(savedState) THEN none
     ELSE
       LET p == JSONparse(savedState)
           notebookState == p.value
           caught == [none EXCEPT !.S = removeNotebookItem(S)]
       IN IF ~p.ok \/ ~CanRead(notebookState) THEN caught
          ELSE
            LET cs == GetProp(notebookState, "cells")
            IN IF Truthy(cs) /\ cs.t = "arr"
               THEN LET S1 == [S EXCEPT !.cells = <<>>,
                                        !.hist.removed = @ \cup Range(Ids(S.cells))]
                        r == LoadLoop(S1, cs.v, 1)
                    IN [S |-> r.S, pc |-> r.pc, result |-> r.result,
                        next |-> r.next, records |-> cs.v, partial |-> r.partial]
               ELSE none

----------------------------------------------------------------------------
(* Text: strings as sequences of characters *)

Whitespace == {" ", "\n", "\t"}

\* the text from its first character that is not whitespace
TrimStart(s) ==
  LET first == {i \in 1..Len(s) : s[i] \notin Whitespace}
  IN IF first = {} THEN <<>>
     ELSE SubSeq(s, CHOOSE i \in first : \A j \in first : i <= j, Len(s))

\* the text up to its last character that is not whitespace
TrimEnd(s) ==
  LET last == {i \in 1..Len(s) : s[i] \notin Whitespace}
  IN IF last = {} THEN <<>>
     ELSE SubSeq(s, 1, CHOOSE i \in last : \A j \in last : i >= j)

\* String.prototype.trim
Trim(s) == TrimEnd(TrimStart(s))

StartsWith(s, p) == Len(s) >= Len(p) /\ SubSeq(s, 1, Len(p)) = p

EndsWith(s, p) == Len(s) >= Len(p) /\ SubSeq(s, Len(s) - Len(p) + 1, Len(s)) = p

Includes(s, p) ==
  \E i \in 1..(Len(s) - Len(p) + 1) : SubSeq(s, i, i + Len(p) - 1) = p

\* positions of the newlines of s, in order
Newlines(s) ==
  LET at == {i \in 1..Len(s) : s[i] = "\n"}
  IN [k \in 1..Cardinality(at) |->
        CHOOSE i \in at : Cardinality({j \in at : j < i}) = k - 1]

\* content.split('\n'): the texts between the newlines, always at least one
Split(s) ==
  LET nl == Newlines(s)
  IN [k \in 1..(Len(nl) + 1) |->
        SubSeq(s, IF k = 1 THEN 1 ELSE nl[k - 1] + 1,
                  IF k = Len(nl) + 1 THEN Len(s) ELSE nl[k] - 1)]

\* Array.prototype.join(sep)
RECURSIVE Join(_, _)
Join(ls, sep) ==
  IF ls = <<>> THEN <<>>
  ELSE IF Len(ls) = 1 THEN ls[1]
       ELSE ls[1] \o sep \o Join(Tail(ls), sep)

\* line.replace(/\*\/\s*$/, '') for a line whose trimmed text ends in `*/`:
\* the last `*/` and the whitespace after it are cut off
StripClose(line) == SubSeq(line, 1, Len(TrimEnd(line)) - 2)

\* `buf += (buf ? '\n' : '') + line`
AppendLine(buf, line) == IF buf # <<>> THEN buf \o <<"\n">> \o line ELSE line

CODE_STARTS == <<"/", "/", " ", "[", "C", "O", "D", "E", " ", "S", "T", "A", "R", "T", "S", "]">>
CODE_ENDS == <<"/", "/", " ", "[", "C", "O", "D", "E", " ", "E", "N", "D", "S", "]">>
MARKDOWN == <<"/", "*", " ", "M", "a", "r", "k", "d", "o", "w", "n">>
RENDER == <<"(", "r", "e", "n", "d", "e", "r", ")">>
OUTPUT == <<"/", "*", " ", "O", "u", "t", "p", "u", "t">>
CLOSE == <<"*", "/">>

----------------------------------------------------------------------------
(* parseNotebookFile.  P is the record of the function's local variables:  *)
(* lines, the index i of the next line, cellsData, jsCodeLines, mdContent, *)
(* outputContent, inCodeBlock, inMdBlock, inOutputBlock, mdMode.  It also  *)
(* carries history: outLines (numbers of the lines held in outputContent), *)
(* curLines and curText (lines and text of the output block that is open), *)
(* dropped (lines of output blocks that closed when no code cell had been  *)
(* emitted), attached (for each output pushed: the cell and the lines its  *)
(* text came from) and ev (what the last step did).                        *)

HasJs(cd) == \E k \in DOMAIN cd : cd[k].type = "js"

\* index of [...cellsData].reverse().find((c) => c.type === 'js'), 0 if none
LastJs(cd) ==
  IF HasJs(cd)
  THEN CHOOSE k \in DOMAIN cd :
         cd[k].type = "js" /\ \A j \in (k + 1)..Len(cd) : cd[j].type # "js"
  ELSE 0

addJsCell(P) ==
  IF Len(P.jsCodeLines) > 0
  THEN [P EXCEPT !.cellsData = Append(@, [type |-> "js",
                                          code |-> Trim(Join(P.jsCodeLines, <<"\n">>)),
                                          outputs |-> <<>>]),
                 !.jsCodeLines = <<>>]
  ELSE P

addMdCell(P) ==
  IF Trim(P.mdContent) # <<>>
  THEN [P EXCEPT !.cellsData = Append(@, [type |-> "md", code |-> Trim(P.mdContent),
                                          mode |-> P.mdMode]),
                 !.mdContent = <<>>]
  ELSE P

addOutput(P) ==
  IF Trim(P.outputContent) # <<>> /\ Len(P.cellsData) > 0
  THEN LET k == LastJs(P.cellsData)
           out == [type |-> "log", data |-> Trim(P.outputContent)]
           P1 == IF k > 0
                 THEN [P EXCEPT !.cellsData[k].outputs = Append(@, out),
                                !.attached = Append(@, [cell |-> k, lines |-> P.outLines])]
                 ELSE P
       IN [P1 EXCEPT !.outputContent = <<>>, !.outLines = {}]
  ELSE P

NoEvent == [closed |-> FALSE, text |-> <<>>, hadJs |-> FALSE, before |-> <<>>]

\* addOutput where the handlers call it; when an output block is open this
\* is where the block closes, which the history records
closeOutput(P) ==
  IF P.inOutputBlock
  THEN addOutput([P EXCEPT
         !.ev = [closed |-> TRUE, text |-> Trim(P.curText),
                 hadJs |-> HasJs(P.cellsData), before |-> P.cellsData],
         !.dropped = IF HasJs(P.cellsData) THEN @ ELSE @ \cup P.curLines,
         !.curLines = {}, !.curText = <<>>])
  ELSE addOutput(P)

\* a line is added to the output buffer
bufferOutput(P, text) ==
  [P EXCEPT !.outputContent = AppendLine(@, text),
            !.outLines = @ \cup {P.i},
            !.curLines = @ \cup {P.i},
            !.curText = AppendLine(@, text)]

\* variant: a line read outside every block is kept as markdown text
bufferLineOutside(P, line) ==
  IF P.inCodeBlock THEN [P EXCEPT !.jsCodeLines = Append(@, line)]
  ELSE IF P.inOutputBlock THEN bufferOutput(P, line)
       ELSE [P EXCEPT !.mdContent = AppendLine(@, line)]

\* a line that is no marker goes to the buffer of the open block
bufferLine(P, line) ==
  IF P.inCodeBlock THEN [P EXCEPT !.jsCodeLines = Append(@, line)]
  ELSE IF P.inMdBlock THEN [P EXCEPT !.mdContent = AppendLine(@, line)]
       ELSE IF P.inOutputBlock THEN bufferOutput(P, line)
            ELSE P

\* variant: the markdown opener leaves inCodeBlock as it was
openMarkdownKeepsCode(P, trimmed) ==
  [closeOutput(addJsCell(P)) EXCEPT
     !.mdMode = IF Includes(trimmed, RENDER) THEN "render" ELSE "edit",
     !.inMdBlock = TRUE, !.inOutputBlock = FALSE]

\* the branch of a line that starts with the markdown opener
openMarkdown(P, trimmed) ==
  [closeOutput(addJsCell(P)) EXCEPT
     !.mdMode = IF Includes(trimmed, RENDER) THEN "render" ELSE "edit",
     !.inMdBlock = TRUE, !.inCodeBlock = FALSE, !.inOutputBlock = FALSE]

\* the body of lines.forEach for one line
processLine(P0, line) ==
  LET trimmed == Trim(line)
      P == [P0 EXCEPT !.ev = NoEvent]
  IN CASE trimmed = CODE_STARTS ->
            [closeOutput(addMdCell(P)) EXCEPT
               !.inCodeBlock = TRUE, !.inMdBlock = FALSE, !.inOutputBlock = FALSE]
       [] trimmed # CODE_STARTS /\ trimmed = CODE_ENDS ->
            [addJsCell(P) EXCEPT !.inCodeBlock = FALSE]
       [] trimmed \notin {CODE_STARTS, CODE_ENDS} /\ StartsWith(trimmed, MARKDOWN) ->
            openMarkdown(P, trimmed)
       [] trimmed \notin {CODE_STARTS, CODE_ENDS} /\ ~StartsWith(trimmed, MARKDOWN)
          /\ StartsWith(trimmed, OUTPUT) ->
            [addMdCell(addJsCell(P)) EXCEPT
               !.inOutputBlock = TRUE, !.inCodeBlock = FALSE, !.inMdBlock = FALSE]
       [] trimmed \notin {CODE_STARTS, CODE_ENDS} /\ ~StartsWith(trimmed, MARKDOWN)
          /\ ~StartsWith(trimmed, OUTPUT) /\ EndsWith(trimmed, CLOSE) ->
            LET contentLine == Trim(StripClose(line))
                P1 == IF contentLine # <<>>
                      THEN IF P.inMdBlock
                           THEN [P EXCEPT !.mdContent = AppendLine(@, contentLine)]
                           ELSE IF P.inOutputBlock THEN bufferOutput(P, contentLine)
                                ELSE P
                      ELSE P
                P2 == IF P1.inMdBlock THEN addMdCell(P1)
                      ELSE IF P1.inOutputBlock THEN closeOutput(P1)
                           ELSE P1
            IN [P2 EXCEPT !.inMdBlock = FALSE, !.inOutputBlock = FALSE]
       [] OTHER -> bufferLine(P, line)

\* variant: the pending output text is not flushed at the end
flushAtEndNoOutput(P) ==
  addMdCell(addJsCell([P EXCEPT !.ev = NoEvent]))

\* the three calls after the loop
flushAtEnd(P) ==
  closeOutput(addMdCell(addJsCell([P EXCEPT !.ev = NoEvent])))

\* the local variables when the loop starts
parseStart(content, src) ==
  [pc |-> "lines", lines |-> Split(content), i |-> 1, cellsData |-> <<>>,
   jsCodeLines |-> <<>>, mdContent |-> <<>>, outputContent |-> <<>>,
   inCodeBlock |-> FALSE, inMdBlock |-> FALSE, inOutputBlock |-> FALSE,
   mdMode |-> "edit",
   outLines |-> {}, curLines |-> {}, curText |-> <<>>, dropped |-> {},
   attached |-> <<>>, ev |-> NoEvent, src |-> src]

----------------------------------------------------------------------------
(* downloadNotebook: the text handed to the browser for download *)

TYPE_OPEN == <<"/", "*", " ", "T", "y", "p", "e", ":", " ">>
TYPE_CLOSE == <<" ", "*", "/", "\n">>
SEPARATOR == <<"\n", "\n", "-", "-", "-", "\n", "\n">>

\* `/* Type: ${cell.type} */\n${code}`; the type is written as its name
TypeName(type) == IF type = "js" THEN <<"j", "s">> ELSE <<"m", "d">>

ExportCell(cell, instances) ==
  LET code == IF cell.id \in DOMAIN instances THEN instances[cell.id] ELSE cell.code
  IN TYPE_OPEN \o TypeName(cell.type) \o TYPE_CLOSE \o code

downloadNotebook(cs, instances) ==
  Join([k \in DOMAIN cs |-> ExportCell(cs[k], instances)], SEPARATOR)

----------------------------------------------------------------------------
(* Proactive suggestions.  G is the record of the suggestion engine:       *)
(* suggestionMemory (trigger -> list of suggestions), dislikedSuggestions  *)
(* (aiPreferences), now (Date.now()), requests (calls suspended in         *)
(* generateNewSuggestion), displayed (cell id -> the suggestion shown in   *)
(* the cell's container), and the history fields lastSelect, lastUpdate,  *)
(* lastFailed (the last step was an answer that gave no suggestion) and    *)
(* uncaught (an error has left triggerProactiveSuggestion).                *)

MaxScore == 12        \* updateSuggestionScore is not called above this score
MaxDelta == 11        \* largest |delta| of a direct call
MaxSuggestions == 2   \* suggestions created per behaviour
MaxRequests == 2      \* requests in flight
MaxNow == 1           \* clock values 0..MaxNow
MaxUpdates == 1       \* calls of updateSuggestionScore per behaviour

BASE_SCORE == 10
SCORE_FLOOR == 1

Triggers == {"setTimeout"}

ERROR_PREFIX == <<"/", "/", " ", "E", "r", "r", "o", "r">>
ERROR_SNIPPET == <<"/", "/", " ", "E", "r", "r", "o", "r", " ", "g", "e", "n", "e", "r", "a", "t", "i", "n", "g", " ", "s", "u", "g", "g", "e", "s", "t", "i", "o", "n", " ", "f", "o", "r", " ", "s", "e", "t", "T", "i", "m", "e", "o", "u", "t">>

Max(a, b) == IF a >= b THEN a ELSE b

RECURSIVE SumScores(_)
SumScores(list) == IF list = <<>> THEN 0 ELSE Head(list).score + SumScores(Tail(list))

RECURSIVE FilterValid(_, _)
FilterValid(list, disliked) ==
  IF list = <<>> THEN <<>>
  ELSE IF Head(list).suggestion \notin disliked
       THEN <<Head(list)>> \o FilterValid(Tail(list), disliked)
       ELSE FilterValid(Tail(list), disliked)

\* variant: the loop returns only when randomPoint falls below 0
RECURSIVE WalkBelowZero(_, _)
WalkBelowZero(list, randomPoint) ==
  IF list = <<>> THEN None
  ELSE LET rest == randomPoint - 2 * Head(list).score
       IN IF rest < 0 THEN Some(Head(list)) ELSE WalkBelowZero(Tail(list), rest)

\* the for loop of selectSuggestion; randomPoint and the scores are counted
\* in halves.  Past the end of the list there is no result.
RECURSIVE Walk(_, _)
Walk(list, randomPoint) ==
  IF list = <<>> THEN None
  ELSE LET rest == randomPoint - 2 * Head(list).score
       IN IF rest <= 0 THEN Some(Head(list)) ELSE Walk(Tail(list), rest)

\* variant: the disliked suggestions are not filtered out
selectSuggestionNoFilter(suggestions, disliked, draw) ==
  IF Len(suggestions) = 0 THEN None
  ELSE LET found == Walk(suggestions, draw)
       IN IF found.ok THEN found ELSE Some(suggestions[1])

\* selectSuggestion with Math.random() * totalScore = draw / 2
selectSuggestion(suggestions, disliked, draw) ==
  LET validSuggestions == FilterValid(suggestions, disliked)
  IN IF Len(validSuggestions) = 0 THEN None
     ELSE LET found == Walk(validSuggestions, draw)
          IN IF found.ok THEN found ELSE Some(validSuggestions[1])

\* values of Math.random() * totalScore for a list, in halves: 0, and for
\* each eligible suggestion a point inside its share of [0, totalScore) and
\* the point where its share ends (totalScore itself is never drawn)
Draws(suggestions, disliked) ==
  LET validSuggestions == FilterValid(suggestions, disliked)
      upTo(i) == SumScores(SubSeq(validSuggestions, 1, i))
  IN {0} \cup {2 * upTo(i) - 1 : i \in DOMAIN validSuggestions}
         \cup {2 * upTo(i) : i \in 1..(Len(validSuggestions) - 1)}

\* suggestionMemory.get(trigger) || []
MemoryGet(G, trigger) ==
  IF trigger \in DOMAIN G.suggestionMemory THEN G.suggestionMemory[trigger] ELSE <<>>

\* variant: the list set for the trigger holds the new suggestion only
MemorySetNewOnly(memory, trigger, list) ==
  [t \in DOMAIN memory \cup {trigger} |->
     IF t = trigger THEN <<list[Len(list)]>> ELSE memory[t]]

MemorySet(memory, trigger, list) ==
  [t \in DOMAIN memory \cup {trigger} |-> IF t = trigger THEN list ELSE memory[t]]

StringifySuggestion(x) ==
  JObj([id |-> JStr(x.id), trigger |-> JStr(x.trigger),
        suggestion |-> JStr(x.suggestion), score |-> JNum(x.score)])

\* JSON.stringify(Array.from(suggestionMemory.entries())); the model has one
\* trigger, so the entries need no order
SerializedMap(memory) ==
  JArr(IF "setTimeout" \in DOMAIN memory
       THEN <<JArr(<<JStr("setTimeout"),
                     JArr([k \in DOMAIN memory["setTimeout"] |->
                            StringifySuggestion(memory["setTimeout"][k])])>>)>>
       ELSE <<>>)

\* saveSuggestionMemory on the storage ls: a failing setItem is caught
saveSuggestionMemory(ls, quota, memory) ==
  IF quota THEN ls
  ELSE [ls EXCEPT ![SUGGESTION_MEMORY_KEY] = JsonText(SerializedMap(memory))]

\* entry[n - 1] of an entry object
EntryPart(x, n) ==
  IF x.t = "arr" THEN (IF Len(x.v) >= n THEN x.v[n] ELSE JUndef)
  ELSE GetProp(x, IF n = 1 THEN "0" ELSE "1")

\* the Map of a list of entry objects: a later entry replaces an earlier one
\* of the same key
MapFromEntries(entries) ==
  [k \in {EntryPart(entries[i], 1) : i \in DOMAIN entries} |->
     LET last == CHOOSE i \in DOMAIN entries :
                   /\ EntryPart(entries[i], 1) = k
                   /\ \A j \in DOMAIN entries : EntryPart(entries[j], 1) = k => j <= i
     IN EntryPart(entries[last], 2)]

\* `new Map(x)`: an empty Map of null, of undefined and of an empty string or
\* array; a TypeError of a value that is not iterable (a number, an object)
\* and of an element that is not an object (a character of a string, a
\* number, null)
NewMap(x) ==
  CASE x.t \in {"null", "undef"} -> [ok |-> TRUE, map |-> <<>>]
    [] x.t = "str" -> [ok |-> x.v = <<>>, map |-> <<>>]
    [] x.t = "arr" ->
         IF \A i \in DOMAIN x.v : x.v[i].t \in {"arr", "obj"}
         THEN [ok |-> TRUE, map |-> MapFromEntries(x.v)]
         ELSE [ok |-> FALSE, map |-> <<>>]
    [] OTHER -> [ok |-> FALSE, map |-> <<>>]

\* loadSuggestionMemory: the Map decoded from the stored text replaces the
\* memory; an error of JSON.parse or of new Map is caught, the key removed
\* and the memory left as it was
loadSuggestionMemory(ls, memory) ==
  LET savedState == ls[SUGGESTION_MEMORY_KEY]
      purged == [ls |-> [ls EXCEPT ![SUGGESTION_MEMORY_KEY] = NoItem],
                 memory |-> memory, result |-> FALSE]
  IN IF ~ItemTruthy(savedState) THEN [ls |-> ls, memory |-> memory, result |-> FALSE]
     ELSE LET p == JSONparse(savedState)
          IN IF ~p.ok \/ ~NewMap(p.value).ok THEN purged
             ELSE [ls |-> ls, memory |-> NewMap(p.value).map, result |-> TRUE]

\* the Map that loadSuggestionMemory decoded from a text written by
\* saveSuggestionMemory, as the engine reads it: its keys and the fields of
\* its suggestions
Revive(map) ==
  [t \in {k.v : k \in DOMAIN map} |->
     [i \in DOMAIN map[JStr(t)].v |->
        LET x == map[JStr(t)].v[i]
        IN [id |-> GetProp(x, "id").v, trigger |-> GetProp(x, "trigger").v,
            suggestion |-> GetProp(x, "suggestion").v, score |-> GetProp(x, "score").v]]]

\* Array.prototype.find by id: index of the first match, 0 if none
FindSuggestion(list, suggestionId) ==
  IF \E k \in DOMAIN list : list[k].id = suggestionId
  THEN CHOOSE k \in DOMAIN list :
         list[k].id = suggestionId /\ \A j \in 1..(k - 1) : list[j].id # suggestionId
  ELSE 0

NoUpdate == [called |-> FALSE, trigger |-> "", k |-> 0, old |-> 0, delta |-> 0]
NoSelect == [called |-> FALSE, list |-> <<>>, disliked |-> {}, found |-> None]

\* variant: the snippet is recorded as disliked whatever the sign of delta
updateSuggestionScoreAnyDelta(G, suggestionId, trigger, delta) ==
  IF trigger \notin DOMAIN G.suggestionMemory THEN [G |-> G, saved |-> FALSE]
  ELSE LET suggestions == G.suggestionMemory[trigger]
           k == FindSuggestion(suggestions, suggestionId)
       IN IF k = 0 THEN [G |-> G, saved |-> FALSE]
          ELSE LET score == Max(SCORE_FLOOR, suggestions[k].score + delta)
               IN [G |-> [G EXCEPT
                            !.suggestionMemory[trigger][k].score = score,
                            !.dislikedSuggestions = @ \cup {suggestions[k].suggestion},
                            !.lastUpdate = [called |-> TRUE, trigger |-> trigger, k |-> k,
                                            old |-> suggestions[k].score,
                                            delta |-> delta]],
                   saved |-> TRUE]

\* variant: a suggestion whose score would fall below the floor is removed
updateSuggestionScoreDropsAtFloor(G, suggestionId, trigger, delta) ==
  IF trigger \notin DOMAIN G.suggestionMemory THEN [G |-> G, saved |-> FALSE]
  ELSE LET suggestions == G.suggestionMemory[trigger]
           k == FindSuggestion(suggestions, suggestionId)
       IN IF k = 0 THEN [G |-> G, saved |-> FALSE]
          ELSE [G |-> [G EXCEPT
                         !.suggestionMemory[trigger] =
                            IF suggestions[k].score + delta < SCORE_FLOOR
                            THEN RemoveAt(@, k)
                            ELSE [@ EXCEPT ![k].score = @ + delta],
                         !.dislikedSuggestions =
                            IF delta < 0 THEN @ \cup {suggestions[k].suggestion} ELSE @,
                         !.lastUpdate = [called |-> TRUE, trigger |-> trigger, k |-> k,
                                         old |-> suggestions[k].score, delta |-> delta]],
                saved |-> TRUE]

\* variant: the score is not held at the floor
updateSuggestionScoreNoFloor(G, suggestionId, trigger, delta) ==
  IF trigger \notin DOMAIN G.suggestionMemory THEN [G |-> G, saved |-> FALSE]
  ELSE LET suggestions == G.suggestionMemory[trigger]
           k == FindSuggestion(suggestions, suggestionId)
       IN IF k = 0 THEN [G |-> G, saved |-> FALSE]
          ELSE [G |-> [G EXCEPT
                         !.suggestionMemory[trigger][k].score = @ + delta,
                         !.dislikedSuggestions =
                            IF delta < 0 THEN @ \cup {suggestions[k].suggestion} ELSE @,
                         !.lastUpdate = [called |-> TRUE, trigger |-> trigger, k |-> k,
                                         old |-> suggestions[k].score, delta |-> delta]],
                saved |-> TRUE]

\* updateSuggestionScore: the engine afterwards, and whether it saved
updateSuggestionScore(G, suggestionId, trigger, delta) ==
  IF trigger \notin DOMAIN G.suggestionMemory THEN [G |-> G, saved |-> FALSE]
  ELSE LET suggestions == G.suggestionMemory[trigger]
           k == FindSuggestion(suggestions, suggestionId)
       IN IF k = 0 THEN [G |-> G, saved |-> FALSE]
          ELSE LET score == Max(SCORE_FLOOR, suggestions[k].score + delta)
               IN [G |-> [G EXCEPT
                            !.suggestionMemory[trigger][k].score = score,
                            !.dislikedSuggestions =
                               IF delta < 0 THEN @ \cup {suggestions[k].suggestion}
                               ELSE @,
                            !.lastUpdate = [called |-> TRUE, trigger |-> trigger, k |-> k,
                                            old |-> suggestions[k].score,
                                            delta |-> delta]],
                   saved |-> TRUE]

\* p occurs in text at position i (the backquote character is written "bq")
At(text, i, p) ==
  i >= 1 /\ i + Len(p) - 1 <= Len(text) /\ SubSeq(text, i, i + Len(p) - 1) = p

FENCE == <<"bq", "bq", "bq">>
FENCE_END == <<"\n", "bq", "bq", "bq">>
LANGS == <<<<"j", "a", "v", "a", "s", "c", "r", "i", "p", "t">>, <<"j", "s">>, <<>>>>

\* ends e of a body that starts after FENCE, LANGS[l] and a newline at i and
\* is followed by FENCE_END
FenceBodies(text, i, l) ==
  LET nl == i + 3 + Len(LANGS[l])
  IN IF At(text, i, FENCE \o LANGS[l] \o <<"\n">>)
     THEN {e \in (nl + 1)..Len(text) : At(text, e + 1, FENCE_END)}
     ELSE {}

\* the regular expression of generateNewSuggestion, a fenced code block with
\* an optional language javascript or js: leftmost start, first alternative
\* that matches, shortest body; None when there is no match
FenceMatch(text) ==
  LET starts == {i \in 1..Len(text) : \E l \in 1..3 : FenceBodies(text, i, l) # {}}
  IN IF starts = {} THEN None
     ELSE LET i == CHOOSE x \in starts : \A y \in starts : x <= y
              l == CHOOSE x \in 1..3 :
                     /\ FenceBodies(text, i, x) # {}
                     /\ \A y \in 1..(x - 1) : FenceBodies(text, i, y) = {}
              e == CHOOSE x \in FenceBodies(text, i, l) :
                     \A y \in FenceBodies(text, i, l) : x <= y
          IN Some(SubSeq(text, i + 4 + Len(LANGS[l]), e))

\* what the provider answers: a text, or a failure of the call
Failure == [ok |-> FALSE, text |-> <<>>]
ProviderAnswers ==
  { Failure,
    [ok |-> TRUE, text |-> <<"x">>],
    [ok |-> TRUE, text |-> <<" ", "y">>],
    [ok |-> TRUE, text |-> <<>>],
    [ok |-> TRUE, text |-> <<" ", "\n">>],
    [ok |-> TRUE, text |-> <<"bq", "bq", "bq", "j", "s", "\n", "x", "\n", "bq", "bq", "bq">>] }

\* variant: the error of a failing provider call is not caught
generateNewSuggestionUncaught(answer) ==
  IF ~answer.ok THEN [threw |-> TRUE, snippet |-> <<>>]
  ELSE LET match == FenceMatch(answer.text)
       IN [threw |-> FALSE,
           snippet |-> IF match.ok THEN Trim(match.view) ELSE Trim(answer.text)]

\* generateNewSuggestion, given the provider's answer: the snippet returned;
\* the error of a failing call is caught and the error comment returned
generateNewSuggestion(answer) ==
  IF ~answer.ok THEN [threw |-> FALSE, snippet |-> ERROR_SNIPPET]
  ELSE LET match == FenceMatch(answer.text)
       IN [threw |-> FALSE,
           snippet |-> IF match.ok THEN Trim(match.view) ELSE Trim(answer.text)]

\* what generateNewSuggestion returns for each answer of the provider
Generated == [answer \in ProviderAnswers |-> generateNewSuggestion(answer)]

\* displaySuggestionUI: nothing without the cell's element; else the cell's
\* container is replaced by one that shows the suggestion
displaySuggestionUI(G, cs, cellId, suggestion) ==
  IF \A k \in DOMAIN cs : cs[k].id # cellId THEN G
  ELSE [G EXCEPT !.displayed =
          [x \in DOMAIN @ \cup {cellId} |->
             IF x = cellId
             THEN [id |-> suggestion.id, trigger |-> suggestion.trigger,
                   suggestion |-> suggestion.suggestion]
             ELSE @[x]]]

\* the container of a cell is removed
removeContainer(G, cellId) ==
  [G EXCEPT !.displayed = [x \in DOMAIN @ \ {cellId} |-> @[x]]]

\* main's call of loadSuggestionMemory: not made yet, or made on item with
\* this result
NotStarted == [pc |-> "start", item |-> NoItem, result |-> FALSE]

SugInit ==
  [suggestionMemory |-> <<>>, dislikedSuggestions |-> {}, now |-> 0,
   requests |-> <<>>, displayed |-> <<>>, created |-> 0, updates |-> 0,
   uncaught |-> FALSE, lastFailed |-> FALSE,
   lastSelect |-> NoSelect, lastUpdate |-> NoUpdate, startup |-> NotStarted,
   edits |-> 0, lastEdit |-> <<>>, evaluations |-> <<>>,
   restarts |-> 0, everDisliked |-> {}]

Quiet(G) ==
  [G EXCEPT !.lastSelect = NoSelect, !.lastUpdate = NoUpdate, !.lastFailed = FALSE]

\* triggerProactiveSuggestion up to its await: a stored suggestion is
\* selected and shown, or a new one is requested
triggerProactiveSuggestion(G0, cs, cellId, trigger, draw) ==
  LET existingSuggestions == MemoryGet(G0, trigger)
      found == IF Len(existingSuggestions) > 0
               THEN selectSuggestion(existingSuggestions, G0.dislikedSuggestions, draw)
               ELSE None
      G == [Quiet(G0) EXCEPT !.lastSelect =
              IF Len(existingSuggestions) > 0
              THEN [called |-> TRUE, list |-> existingSuggestions,
                    disliked |-> G0.dislikedSuggestions, found |-> found]
              ELSE NoSelect]
  IN IF found.ok
     THEN displaySuggestionUI(G, cs, cellId, found.view)
     ELSE [G EXCEPT !.requests = Append(@, [cell |-> cellId, trigger |-> trigger])]

----------------------------------------------------------------------------
(* handleCellCodeChange *)

DEBOUNCE_DELAY == 1500

\* the characters that the class \w of a regular expression matches
WordChars ==
  {"a", "b", "c", "d", "e", "f", "g", "h", "i", "j", "k", "l", "m", "n", "o", "p", "q",
   "r", "s", "t", "u", "v", "w", "x", "y", "z", "A", "B", "C", "D", "E", "F", "G", "H",
   "I", "J", "K", "L", "M", "N", "O", "P", "Q", "R", "S", "T", "U", "V", "W", "X", "Y",
   "Z", "0", "1", "2", "3", "4", "5", "6", "7", "8", "9", "_"}

\* the characters of a trigger word
TriggerText(trigger) ==
  IF trigger = "setTimeout"
  THEN <<"s", "e", "t", "T", "i", "m", "e", "o", "u", "t">>
  ELSE <<>>

\* new RegExp(`\\b${trigger}\\b`).test(code)
TestWord(code, trigger) ==
  LET word == TriggerText(trigger)
      n == Len(word)
  IN \E i \in 1..(Len(code) - n + 1) :
       /\ SubSeq(code, i, i + n - 1) = word
       /\ i = 1 \/ code[i - 1] \notin WordChars
       /\ i + n - 1 = Len(code) \/ code[i + n] \notin WordChars

\* cellDebounceTimers.set(cellId, timerId)
TimerSet(timers, cellId, timerId) ==
  [k \in DOMAIN timers \cup {cellId} |-> IF k = cellId THEN timerId ELSE timers[k]]

\* variant: the timer that is pending is not cleared
handleCellCodeChangeNoClear(S, cellId, now, timerId) ==
  [S EXCEPT !.timeouts = @ \cup {[id |-> timerId, cell |-> cellId, due |-> now + DEBOUNCE_DELAY]},
            !.timers = TimerSet(@, cellId, timerId)]

\* handleCellCodeChange: timerId is the id that setTimeout returns, now the
\* time of the call
handleCellCodeChange(S, cellId, now, timerId) ==
  LET S1 == IF cellId \in DOMAIN S.timers
            THEN [S EXCEPT !.timeouts = clearTimeout(@, S.timers[cellId])]
            ELSE S
  IN [S1 EXCEPT !.timeouts = @ \cup {[id |-> timerId, cell |-> cellId, due |-> now + DEBOUNCE_DELAY]},
                !.timers = TimerSet(@, cellId, timerId)]

\* the callback that handleCellCodeChange hands to setTimeout, for the task t
debounceCallback(S, G, t, draw) ==
  LET code == IF t.cell \in DOMAIN S.instances THEN S.instances[t.cell] ELSE <<>>
      hit == {trigger \in Triggers : TestWord(code, trigger)}
      G1 == IF hit # {} /\ t.cell \notin DOMAIN G.displayed
            THEN triggerProactiveSuggestion(G, S.cells, t.cell, CHOOSE trigger \in hit : TRUE, draw)
            ELSE Quiet(G)
  IN [S |-> [S EXCEPT !.timeouts = @ \ {t},
                      !.timers = [k \in (DOMAIN @) \ {t.cell} |-> @[k]]],
      G |-> G1]

----------------------------------------------------------------------------
(* The chat: emotional state and the guessing game (part_000 60-150, 691-800) *)

\* the values of aiConsciousness are kept in half points, the step of
\* decayEmotions
Scale == 2

MaxMessages == 3   \* chat messages sent
MaxTicks == 2      \* runs of the 30-second loop with the chat panel open

UpperCase ==
  <<"A", "B", "C", "D", "E", "F", "G", "H", "I", "J", "K", "L", "M", "N", "O", "P", "Q",
    "R", "S", "T", "U", "V", "W", "X", "Y", "Z">>

LowerCase ==
  <<"a", "b", "c", "d", "e", "f", "g", "h", "i", "j", "k", "l", "m", "n", "o", "p", "q",
    "r", "s", "t", "u", "v", "w", "x", "y", "z">>

\* message.toLowerCase()
toLowerCase(s) ==
  [i \in DOMAIN s |->
     IF \E k \in DOMAIN UpperCase : UpperCase[k] = s[i]
     THEN LowerCase[CHOOSE k \in DOMAIN UpperCase : UpperCase[k] = s[i]]
     ELSE s[i]]

\* /\b(w1|w2|...)\b/.test(text)
TestWords(text, words) ==
  \E word \in words :
    \E i \in 1..(Len(text) - Len(word) + 1) :
      /\ SubSeq(text, i, i + Len(word) - 1) = word
      /\ i = 1 \/ text[i - 1] \notin WordChars
      /\ i + Len(word) - 1 = Len(text) \/ text[i + Len(word)] \notin WordChars

PositiveWords == {<<"t", "h", "a", "n", "k">>,
                  <<"t", "h", "a", "n", "k", "s">>,
                  <<"g", "r", "e", "a", "t">>,
                  <<"a", "w", "e", "s", "o", "m", "e">>,
                  <<"l", "o", "v", "e">>,
                  <<"c", "o", "o", "l">>}

NegativeWords == {<<"b", "a", "d">>,
                  <<"s", "t", "u", "p", "i", "d">>,
                  <<"w", "r", "o", "n", "g">>,
                  <<"h", "a", "t", "e">>,
                  <<"t", "e", "r", "r", "i", "b", "l", "e">>}

GameWords == {<<"p", "l", "a", "y">>,
              <<"g", "a", "m", "e">>}

DigitChars == <<"0", "1", "2", "3", "4", "5", "6", "7", "8", "9">>

IsDigit(c) == \E k \in DOMAIN DigitChars : DigitChars[k] = c

DigitValue(c) == (CHOOSE k \in DOMAIN DigitChars : DigitChars[k] = c) - 1

RECURSIVE DigitsValue(_, _)
\* the value of the digits that s starts with, after the value acc
DigitsValue(s, acc) ==
  IF s = <<>> \/ ~IsDigit(Head(s)) THEN acc
  ELSE DigitsValue(Tail(s), acc * 10 + DigitValue(Head(s)))

\* parseInt(message, 10): leading whitespace is skipped, a sign is read, then
\* the digits up to the first other character; NaN when there is no digit
parseInt(message) ==
  LET s == TrimStart(message)
      signed == s # <<>> /\ Head(s) \in {"+", "-"}
      digits == IF signed THEN Tail(s) ELSE s
  IN IF digits = <<>> \/ ~IsDigit(Head(digits)) THEN None
     ELSE Some(IF signed /\ Head(s) = "-"
               THEN 0 - DigitsValue(digits, 0)
               ELSE DigitsValue(digits, 0))

\* Math.max(0, Math.min(100, x)), x in half points
Clamp(x) == IF x < 0 THEN 0 ELSE IF x > 100 * Scale THEN 100 * Scale ELSE x

NoReply == [kind |-> "none", number |-> 0, guesses |-> 0]

Reply(kind) == [NoReply EXCEPT !.kind = kind]

NoChat == [message |-> <<>>, wasActive |-> FALSE, complied |-> FALSE]

\* aiConsciousness and the game variables after construction; requests are
\* the provider calls in flight, reply the last reply of processChatMessage,
\* last the message of the last call and what the call found
ChatInit ==
  [pleasure |-> 50 * Scale, arousal |-> 20 * Scale, relationship |-> 50 * Scale,
   isGameActive |-> FALSE, secretNumber |-> 0, guessCount |-> 0,
   requests |-> <<>>, reply |-> NoReply, last |-> NoChat, sent |-> 0, ticks |-> 0]

\* aiConsciousness.decayEmotions(): pleasure moves half a point towards the
\* baseline 40 + relationship / 5, arousal falls by a point while above 10
decayEmotions(C) ==
  LET C1 == IF 5 * C.pleasure > 40 * 5 * Scale + C.relationship
            THEN [C EXCEPT !.pleasure = @ - Scale \div 2]
            ELSE [C EXCEPT !.pleasure = @ + Scale \div 2]
  IN IF C1.arousal > 10 * Scale
     THEN [C1 EXCEPT !.arousal = @ - 1 * Scale]
     ELSE C1

\* aiConsciousness.update(message): the changes the keywords of the message
\* call for are added, then each value is clamped
update(C, message) ==
  LET lowerCaseMessage == toLowerCase(message)
      positive == TestWords(lowerCaseMessage, PositiveWords)
      negative == TestWords(lowerCaseMessage, NegativeWords)
      question == Includes(lowerCaseMessage, <<"?">>)
      exclaim == Includes(lowerCaseMessage, <<"!">>)
      game == TestWords(lowerCaseMessage, GameWords)
      pleasureChange ==
        (IF positive THEN 15 ELSE 0) - (IF negative THEN 20 ELSE 0)
          + (IF game THEN 10 ELSE 0)
      arousalChange ==
        (IF negative THEN 10 ELSE 0) + (IF question THEN 10 ELSE 0)
          + (IF exclaim THEN 5 ELSE 0) + (IF game THEN 20 ELSE 0)
      relationshipChange ==
        (IF positive THEN 5 ELSE 0) - (IF negative THEN 8 ELSE 0)
  IN [C EXCEPT !.pleasure = Clamp(@ + pleasureChange * Scale),
               !.arousal = Clamp(@ + arousalChange * Scale),
               !.relationship = Clamp(@ + relationshipChange * Scale)]

\* aiConsciousness.getComplianceScore(), rounded down to a half point: the
\* draws it is compared with are whole numbers of half points
getComplianceScore(C) == Clamp((C.pleasure + C.relationship) \div 2)

\* handleActiveGame(message)
handleActiveGame(C, message) ==
  LET guess == parseInt(message)
  IN IF ~guess.ok THEN [C EXCEPT !.reply = Reply("notANumber")]
     ELSE LET C1 == [C EXCEPT !.guessCount = @ + 1]
          IN IF guess.view = C1.secretNumber
             THEN [C1 EXCEPT !.isGameActive = FALSE,
                             !.reply = [kind |-> "youGotIt", number |-> C1.secretNumber,
                                        guesses |-> C1.guessCount]]
             ELSE [C1 EXCEPT !.reply = Reply("clue")]

\* startGame(); secret is the draw Math.floor(Math.random() * 100) + 1
startGame(C, secret) ==
  [C EXCEPT !.isGameActive = TRUE, !.secretNumber = secret, !.guessCount = 0,
            !.reply = Reply("letsPlay")]

\* stopGame()
stopGame(C) ==
  IF C.isGameActive
  THEN [C EXCEPT !.isGameActive = FALSE,
                 !.reply = [NoReply EXCEPT !.kind = "quitter", !.number = C.secretNumber]]
  ELSE [C EXCEPT !.reply = Reply("notPlaying")]

\* the entries of the map localCommands, in the order of insertion: the
\* alternatives of the regular expression and the handler
localCommands ==
  <<[patterns |-> {<<"p", "l", "a", "y", " ", "a", " ", "g", "a", "m", "e">>,
                   <<"g", "u", "e", "s", "s", " ", "t", "h", "e", " ", "n", "u", "m", "b", "e", "r">>}, handler |-> "startGame"],
    [patterns |-> {<<"s", "t", "o", "p", " ", "p", "l", "a", "y", "i", "n", "g">>}, handler |-> "stopGame"],
    [patterns |-> {<<"h", "e", "l", "l", "o">>}, handler |-> "hello"],
    [patterns |-> {<<"a", "d", "d", " ", "c", "o", "d", "e">>}, handler |-> "addCode"],
    [patterns |-> {<<"r", "u", "n", " ", "a", "l", "l">>}, handler |-> "runAll"]>>

\* commandRegex.test(lowerCaseMessage)
CommandTest(k, lowerCaseMessage) ==
  \E p \in localCommands[k].patterns : Includes(lowerCaseMessage, p)

\* the handler of a local command runs on the chat state C and the store S;
\* runAllCells only writes to the console
RunCommand(handler, C, S, secret) ==
  IF handler = "startGame" THEN [C |-> startGame(C, secret), S |-> S]
  ELSE IF handler = "stopGame" THEN [C |-> stopGame(C), S |-> S]
  ELSE IF handler = "hello" THEN [C |-> [C EXCEPT !.reply = Reply("hello")], S |-> S]
  ELSE IF handler = "addCode"
  THEN [C |-> [C EXCEPT !.reply = Reply("newCell")],
        S |-> addCell(S, JStr(<<>>), JStr("js"), FALSE, JUndef, FALSE).S]
  ELSE [C |-> [C EXCEPT !.reply = Reply("executing")], S |-> S]

\* processChatMessage(message) up to its return or its first await.  draw is
\* Math.random() * 100 in half points; a call that goes to the provider is
\* kept in requests until the provider answers
processChatMessage(C, S, message, draw, secret) ==
  LET C1 == update(C, message)
      complied == ~(draw > getComplianceScore(C1))
      C2 == [C1 EXCEPT !.sent = @ + 1,
                       !.last = [message |-> message, wasActive |-> C1.isGameActive,
                                 complied |-> complied]]
      lowerCaseMessage == toLowerCase(message)
      matching == {k \in DOMAIN localCommands : CommandTest(k, lowerCaseMessage)}
  IN IF ~complied
     THEN [C |-> [C2 EXCEPT !.requests = Append(@, "refusal")], S |-> S]
     ELSE IF C2.isGameActive
     THEN [C |-> handleActiveGame(C2, lowerCaseMessage), S |-> S]
     ELSE IF matching # {}
     THEN LET first == CHOOSE k \in matching : \A j \in matching : k <= j
          IN RunCommand(localCommands[first].handler, C2, S, secret)
     ELSE [C |-> [C2 EXCEPT !.requests = Append(@, "answer")], S |-> S]

\* the provider call of processChatMessage returns (ok) or throws: the catch
\* lowers pleasure by 15 and raises arousal by 20
answerReturns(C, k, ok) ==
  LET C1 == [C EXCEPT !.requests = RemoveAt(@, k)]
  IN IF ok THEN [C1 EXCEPT !.reply = Reply("answer")]
     ELSE [C1 EXCEPT !.pleasure = @ - 15 * Scale,
                     !.arousal = @ + 20 * Scale,
                     !.reply = Reply("overwhelmed")]

\* the provider call of generateAlternativeOrRefusalResponse returns or
\* throws: the reply is the provider's text or one of the refusal matrix
refusalReturns(C, k, ok) ==
  [C EXCEPT !.requests = RemoveAt(@, k),
            !.reply = IF ok THEN Reply("refusal") ELSE Reply("fallback")]

----------------------------------------------------------------------------
(* The store as a state machine *)

St ==
  [cells |-> cells, cellCounter |-> cellCounter, monaco |-> monaco,
   instances |-> monacoInstances, timers |-> cellDebounceTimers,
   timeouts |-> timeouts, retries |-> attachRetryTimers,
   ls |-> localStorage, quota |-> quotaExceeded, pend |-> pendingAddCells,
   hist |-> hist]

Commit(S) ==
  /\ cells' = S.cells
  /\ cellCounter' = S.cellCounter
  /\ monaco' = S.monaco
  /\ monacoInstances' = S.instances
  /\ cellDebounceTimers' = S.timers
  /\ timeouts' = S.timeouts
  /\ attachRetryTimers' = S.retries
  /\ localStorage' = S.ls
  /\ quotaExceeded' = S.quota
  /\ pendingAddCells' = S.pend
  /\ hist' = S.hist

LogO == [type |-> "log", data |-> <<"o">>]

\* arguments of the addCell calls made by handlers; addCell('', 'js') is the
\* call of the `add code` command (part_000 731)
NewCellArgs ==
  { [code |-> <<>>, type |-> "js", renderMd |-> FALSE, outputs |-> <<>>],
    [code |-> <<"a">>, type |-> "js", renderMd |-> FALSE, outputs |-> <<LogO>>],
    [code |-> <<"m">>, type |-> "md", renderMd |-> TRUE, outputs |-> <<>>] }

\* values found under the notebook key when the page starts
StoredAtStart ==
  { NoItem,
    BadText("{oops"),
    JsonText(JNull),
    JsonText(JObj(<<>>)),
    JsonText(JObj([cells |-> JNum(5)])),
    JsonText(JObj([cells |-> JArr(<<JNull>>)])),
    JsonText(JObj([cells |-> JArr(<<JObj([code |-> JStr(<<"a">>), outputs |-> JNull])>>)])),
    JsonText(JObj([cells |-> JArr(<<JObj([code |-> JStr(<<"a">>)]),
                                    JObj([type |-> JStr("md"), code |-> JStr(<<"m">>),
                                          mode |-> JStr("render"),
                                          outputs |-> JArr(<<>>)])>>)])) }

\* pc: "idle", "awaiting" (suspended in an addCell) or "returned" (the load
\* has returned and no handler has run since); item is the stored value the
\* load read, saved the snapshot it was written from when a save of this
\* page wrote it, empty whether the store held no cell when the load was
\* called, partial whether the load wrote the notebook key before it had
\* restored the last record, demo whether main has called
\* initializeAppWithChatState
LoadIdle ==
  [pc |-> "idle", result |-> FALSE, records |-> <<>>, next |-> 0, count |-> 0,
   saved |-> None, interleaved |-> FALSE, item |-> NoItem, empty |-> TRUE,
   partial |-> FALSE, demo |-> FALSE]

\* a handler other than the load runs
Observe(ls) ==
  IF ls.pc = "awaiting" THEN [ls EXCEPT !.interleaved = TRUE]
  ELSE [LoadIdle EXCEPT !.count = ls.count, !.demo = ls.demo]

\* variant: main calls initializeAppWithChatState whatever the load returned
mainAfterLoadAlways(loadedFromMemory, demo) == TRUE

\* main after `await loadNotebookFromMemory()`: the demo state is set up when
\* the load returned false
mainAfterLoad(loadedFromMemory, demo) ==
  IF ~loadedFromMemory THEN TRUE ELSE demo

\* the load returns and main goes on, or the load is suspended again
LoadResult(ls, r) ==
  [ls EXCEPT !.pc = r.pc, !.result = r.result, !.next = r.next,
             !.records = IF r.pc = "awaiting" THEN @ ELSE <<>>,
             !.partial = @ \/ r.partial,
             !.demo = IF r.pc = "returned" THEN mainAfterLoad(r.result, @) ELSE @]

\* uncaught: an error has left a handler
HistInit == [inserted |-> <<>>, removed |-> {}, lastSaved |-> None, uncaught |-> FALSE]

ParserIdle == [pc |-> "idle"]

InitStore ==
  /\ cells = <<>>
  /\ cellCounter = 0
  /\ monaco = FALSE
  /\ monacoInstances = <<>>
  /\ cellDebounceTimers = <<>>
  /\ timeouts = {}
  /\ attachRetryTimers = {}
  /\ localStorage \in
       {[k \in {NOTEBOOK_MEMORY_KEY, SUGGESTION_MEMORY_KEY} |->
           IF k = NOTEBOOK_MEMORY_KEY THEN item ELSE NoItem] : item \in StoredAtStart}
  /\ quotaExceeded = FALSE
  /\ pendingAddCells = <<>>
  /\ loadState = LoadIdle
  /\ hist = HistInit

\* a handler calls addCell (not the load)
AddCell(a) ==
  /\ cellCounter < MaxCounter
  /\ Commit(addCell(St, JStr(a.code), JStr(a.type), a.renderMd, JArr(a.outputs), FALSE).S)
  /\ loadState' = Observe(loadState)

\* deleteCell; the cell's element goes, and the suggestion container in it
DeleteCell(cellId) ==
  /\ Commit(deleteCell(St, cellId))
  /\ loadState' = Observe(loadState)
  /\ sug' = removeContainer(Quiet(sug), cellId)

\* main calls loadNotebookFromMemory, which runs to its first suspension
LoadNotebook ==
  /\ loadState.pc # "awaiting"
  /\ loadState.count < MaxLoads
  /\ LET r == loadNotebookFromMemory(St)
         item == localStorage[NOTEBOOK_MEMORY_KEY]
         emptied == /\ ItemTruthy(item)
                    /\ JSONparse(item).ok
                    /\ CanRead(JSONparse(item).value)
                    /\ Truthy(GetProp(JSONparse(item).value, "cells"))
                    /\ GetProp(JSONparse(item).value, "cells").t = "arr"
     IN /\ Commit(r.S)
        \* DOM.notebook.innerHTML = '' removes every container
        /\ sug' = IF emptied THEN [sug EXCEPT !.displayed = <<>>] ELSE sug
        /\ loadState' =
             LoadResult([LoadIdle EXCEPT !.count = loadState.count + 1,
                                         !.records = r.records,
                                         !.saved = hist.lastSaved,
                                         !.empty = (cells = <<>>),
                                         !.item = localStorage[NOTEBOOK_MEMORY_KEY]], r)

\* the suspended addCell calls go on, in the order of the calls
RECURSIVE ResumeAll(_)
ResumeAll(S) ==
  IF S.pend = <<>> THEN S
  ELSE ResumeAll(addCellEnd([S EXCEPT !.pend = Tail(@)], Head(S.pend).id, "js"))

\* the timer of attachEditorListeners fires: the call is made again
AttachRetry(cellId) ==
  /\ cellId \in attachRetryTimers
  /\ Commit(attachEditorListeners([St EXCEPT !.retries = @ \ {cellId}], cellId))
  /\ UNCHANGED loadState

\* loader.init() resolves: every suspended addCell resumes in the order of the
\* calls (monaco is set, listeners attached, the notebook saved), then the
\* load that awaited one of them goes on with the records that are left
LoaderResolve ==
  /\ pendingAddCells # <<>>
  /\ LET S1 == ResumeAll([St EXCEPT !.monaco = TRUE])
     IN IF loadState.pc = "awaiting"
        THEN LET r == LoadLoop(S1, loadState.records, loadState.next)
                 resumed == WritesPartial(St, loadState.records, loadState.next - 1)
             IN /\ Commit(r.S)
                /\ loadState' = LoadResult([loadState EXCEPT !.partial = @ \/ resumed], r)
        ELSE /\ Commit(S1)
             /\ loadState' = Observe(loadState)

\* the storage quota is reached, or space is freed
QuotaChange ==
  /\ quotaExceeded' = ~quotaExceeded
  /\ UNCHANGED <<cells, cellCounter, monaco, monacoInstances, cellDebounceTimers,
                 timeouts, attachRetryTimers, localStorage, pendingAddCells, loadState, hist>>

NextStore ==
  \/ \E a \in NewCellArgs : AddCell(a) /\ UNCHANGED <<parser, sug, chat>>
  \/ \E cellId \in 0..cellCounter : DeleteCell(cellId) /\ UNCHANGED <<parser, chat>>
  \/ LoadNotebook /\ UNCHANGED <<parser, chat>>
  \/ LoaderResolve /\ UNCHANGED <<parser, sug, chat>>
  \/ QuotaChange /\ UNCHANGED <<parser, sug, chat>>
  \/ \E cellId \in 0..cellCounter : AttachRetry(cellId) /\ UNCHANGED <<parser, sug, chat>>

Init == InitStore /\ parser = ParserIdle /\ sug = SugInit /\ chat = ChatInit

Spec == Init /\ [][NextStore]_vars

----------------------------------------------------------------------------
(* The parser as a state machine: one step per line, one for the end *)

MaxFragments == 3   \* fragments in an input text
MaxExport == 2      \* cells in an exported notebook

\* pieces of text, each a list of lines, that the input texts are made of
Fragments ==
  { <<CODE_STARTS>>, <<CODE_ENDS>>, <<OUTPUT>>, <<CLOSE>>, <<<<"a">>>>,
    <<CODE_STARTS, <<"a">>, CODE_ENDS>>,
    <<<<" ", " ", "/", "/", " ", "[", "C", "O", "D", "E", " ", "S", "T", "A", "R", "T", "S", "]", " ">>, <<"b">>, CODE_ENDS>>,
    <<CODE_STARTS, <<" ">>, CODE_ENDS>>,
    <<CODE_STARTS, CODE_ENDS>>,
    <<MARKDOWN, <<"m">>, CLOSE>>,
    <<<<"/", "*", " ", "M", "a", "r", "k", "d", "o", "w", "n", " ", "(", "r", "e", "n", "d", "e", "r", ")">>, <<"n", " ", "*", "/">>>>,
    <<OUTPUT, <<"h">>, CLOSE>>,
    <<OUTPUT, <<"k", " ", "*", "/">>>> }

RECURSIVE Flatten(_)
Flatten(fs) == IF fs = <<>> THEN <<>> ELSE Head(fs) \o Flatten(Tail(fs))

RECURSIVE SeqsUpTo(_, _)
SeqsUpTo(S, n) ==
  IF n = 0 THEN {<<>>}
  ELSE LET shorter == SeqsUpTo(S, n - 1)
       IN shorter \cup {Append(q, x) : q \in shorter, x \in S}

InputTexts == {Join(Flatten(fs), <<"\n">>) : fs \in SeqsUpTo(Fragments, MaxFragments)}

\* the store after the addCell calls of a list of arguments, the editor
\* library being loaded
RECURSIVE AddAll(_, _)
AddAll(S, args) ==
  IF args = <<>> THEN S
  ELSE AddAll(addCell(S, JStr(Head(args).code), JStr(Head(args).type),
                      Head(args).renderMd, JArr(Head(args).outputs), FALSE).S,
              Tail(args))

EmptyStore ==
  [cells |-> <<>>, cellCounter |-> 0, monaco |-> TRUE, instances |-> <<>>,
   timers |-> <<>>, timeouts |-> {}, retries |-> {}, ls |-> [k \in {NOTEBOOK_MEMORY_KEY, SUGGESTION_MEMORY_KEY} |-> NoItem],
   quota |-> FALSE, pend |-> <<>>, hist |-> HistInit]

\* cells that are not empty, a markdown cell in edit mode among them
ExportArgs ==
  {a \in NewCellArgs : Trim(a.code) # <<>>} \cup
  {[code |-> <<"m">>, type |-> "md", renderMd |-> FALSE, outputs |-> <<>>]}

Holds(S) ==
  /\ cells = S.cells
  /\ cellCounter = S.cellCounter
  /\ monaco = S.monaco
  /\ monacoInstances = S.instances
  /\ cellDebounceTimers = S.timers
  /\ timeouts = S.timeouts
  /\ attachRetryTimers = S.retries
  /\ localStorage = S.ls
  /\ quotaExceeded = S.quota
  /\ pendingAddCells = S.pend
  /\ hist = S.hist

\* the parser is given either a text made of fragments (an imported file) or
\* the text that downloadNotebook makes of the cells of the store
InitParse ==
  /\ loadState = LoadIdle
  /\ sug = SugInit
  /\ chat = ChatInit
  /\ \/ /\ Holds([EmptyStore EXCEPT !.monaco = FALSE])
        /\ \E content \in InputTexts : parser = parseStart(content, FALSE)
     \/ /\ \E args \in SeqsUpTo(ExportArgs, MaxExport) : Holds(AddAll(EmptyStore, args))
        /\ parser = parseStart(downloadNotebook(cells, monacoInstances), TRUE)

ParseLine ==
  /\ parser.pc = "lines"
  /\ parser.i <= Len(parser.lines)
  /\ parser' = [processLine(parser, parser.lines[parser.i]) EXCEPT !.i = @ + 1]
  /\ UNCHANGED <<storeVars, sug, chat>>

ParseEnd ==
  /\ parser.pc = "lines"
  /\ parser.i > Len(parser.lines)
  /\ parser' = [flushAtEnd(parser) EXCEPT !.pc = "done"]
  /\ UNCHANGED <<storeVars, sug, chat>>

NextParse ==
  \/ ParseLine
  \/ ParseEnd

SpecParse == InitParse /\ [][NextParse]_vars

----------------------------------------------------------------------------
(* The suggestion engine as a state machine *)

\* the store with one code cell, the editor library loaded
SugCells ==
  AddAll(EmptyStore, <<[code |-> <<"a">>, type |-> "js", renderMd |-> FALSE, outputs |-> <<>>]>>)

\* the ids of the cells the engine is used on
SugCellIds == {SugCells.cells[k].id : k \in DOMAIN SugCells.cells}

InitSug ==
  /\ Holds(SugCells)
  /\ loadState = LoadIdle
  /\ parser = ParserIdle
  /\ sug = SugInit
  /\ chat = ChatInit

\* the debounce callback finds the trigger word in a cell that shows no
\* suggestion and calls triggerProactiveSuggestion, which runs up to its
\* await; draw is the value of Math.random() * totalScore
TriggerProactiveSuggestion(cellId, trigger, draw) ==
  /\ \E k \in DOMAIN cells : cells[k].id = cellId
  /\ cellId \notin DOMAIN sug.displayed
  /\ sug' = triggerProactiveSuggestion(sug, cells, cellId, trigger, draw)
  /\ Len(sug'.requests) <= MaxRequests
  /\ UNCHANGED <<storeVars, parser, chat>>

\* the provider answers request r: triggerProactiveSuggestion goes on
ProviderAnswer(r, answer) ==
  /\ r \in DOMAIN sug.requests
  /\ LET req == sug.requests[r]
         generated == Generated[answer]
         newSnippet == generated.snippet
         G == [Quiet(sug) EXCEPT !.requests = RemoveAt(@, r)]
     IN IF generated.threw
        THEN /\ sug' = [G EXCEPT !.uncaught = TRUE]
             /\ UNCHANGED localStorage
        ELSE IF newSnippet # <<>> /\ ~StartsWith(newSnippet, ERROR_PREFIX)
        THEN /\ sug.created < MaxSuggestions
             /\ LET suggestionToDisplay ==
                      [id |-> G.now, trigger |-> req.trigger,
                       suggestion |-> newSnippet, score |-> BASE_SCORE]
                    G1 == [G EXCEPT
                             !.suggestionMemory =
                                MemorySet(@, req.trigger,
                                          Append(MemoryGet(G, req.trigger), suggestionToDisplay)),
                             !.created = @ + 1]
                IN /\ sug' = displaySuggestionUI(G1, cells, req.cell, suggestionToDisplay)
                   /\ localStorage' = saveSuggestionMemory(localStorage, quotaExceeded,
                                                           G1.suggestionMemory)
        ELSE /\ sug' = [G EXCEPT !.lastFailed = TRUE]
             /\ UNCHANGED localStorage
  /\ UNCHANGED <<cells, cellCounter, monaco, monacoInstances, cellDebounceTimers,
                 timeouts, attachRetryTimers, quotaExceeded, pendingAddCells, loadState, hist,
                 parser, chat>>

\* updateSuggestionScore and the save it ends with
UpdateScore(G, suggestionId, trigger, delta) ==
  LET r == updateSuggestionScore(Quiet(G), suggestionId, trigger, delta)
  IN /\ \A k \in DOMAIN MemoryGet(G, trigger) :
          MemoryGet(G, trigger)[k].score + delta <= MaxScore
     /\ G.updates < MaxUpdates
     /\ sug' = [r.G EXCEPT !.updates = @ + 1]
     /\ localStorage' = IF r.saved
                        THEN saveSuggestionMemory(localStorage, quotaExceeded,
                                                  r.G.suggestionMemory)
                        ELSE localStorage
     /\ UNCHANGED <<cells, cellCounter, monaco, monacoInstances, cellDebounceTimers,
                    timeouts, attachRetryTimers, quotaExceeded, pendingAddCells, loadState, hist,
                    parser, chat>>

\* the like button of the suggestion shown in a cell
LikeClick(cellId) ==
  /\ cellId \in DOMAIN sug.displayed
  /\ UpdateScore(sug, sug.displayed[cellId].id, sug.displayed[cellId].trigger, 1)

\* the dislike button: the score goes down and the container is dismissed
DislikeClick(cellId) ==
  /\ cellId \in DOMAIN sug.displayed
  /\ UpdateScore(removeContainer(sug, cellId), sug.displayed[cellId].id,
                 sug.displayed[cellId].trigger, -1)

\* the close button, or the insert button (no editor view: nothing is edited)
DismissClick(cellId) ==
  /\ cellId \in DOMAIN sug.displayed
  /\ sug' = removeContainer(Quiet(sug), cellId)
  /\ UNCHANGED <<storeVars, parser, chat>>

\* any other call of updateSuggestionScore
UpdateScoreCall(suggestionId, trigger, delta) ==
  UpdateScore(sug, suggestionId, trigger, delta)

\* Date.now() moves on
Tick ==
  /\ sug.now < MaxNow
  /\ sug' = [Quiet(sug) EXCEPT !.now = @ + 1]
  /\ UNCHANGED <<storeVars, parser, chat>>

Deltas == {0 - MaxDelta, 0, 2}

NextSug ==
  \/ \E cellId \in SugCellIds, trigger \in Triggers :
       \E draw \in Draws(MemoryGet(sug, trigger), sug.dislikedSuggestions) :
         TriggerProactiveSuggestion(cellId, trigger, draw)
  \/ \E r \in 1..MaxRequests, answer \in ProviderAnswers : ProviderAnswer(r, answer)
  \/ \E cellId \in SugCellIds : LikeClick(cellId)
  \/ \E cellId \in SugCellIds : DislikeClick(cellId)
  \/ \E cellId \in SugCellIds : DismissClick(cellId)
  \/ \E suggestionId \in 0..MaxNow, trigger \in Triggers \cup {"fetch"}, delta \in Deltas :
       UpdateScoreCall(suggestionId, trigger, delta)
  \/ Tick
  \/ \E cellId \in SugCellIds : DeleteCell(cellId) /\ UNCHANGED <<parser, chat>>

SpecSug == InitSug /\ [][NextSug]_vars

----------------------------------------------------------------------------
(* The suggestion engine used from two cells *)

\* the store with two code cells, the editor library loaded; the clock stands
\* still, so the suggestions created get the same id
TwoSugCells ==
  AddAll(EmptyStore, <<[code |-> <<"a">>, type |-> "js", renderMd |-> FALSE, outputs |-> <<>>],
                       [code |-> <<"a">>, type |-> "js", renderMd |-> FALSE, outputs |-> <<>>]>>)

TwoSugCellIds == {TwoSugCells.cells[k].id : k \in DOMAIN TwoSugCells.cells}

InitSugTwo ==
  /\ Holds(TwoSugCells)
  /\ loadState = LoadIdle
  /\ parser = ParserIdle
  /\ sug = SugInit
  /\ chat = ChatInit

NextSugTwo ==
  \/ \E cellId \in TwoSugCellIds, trigger \in Triggers :
       \E draw \in Draws(MemoryGet(sug, trigger), sug.dislikedSuggestions) :
         TriggerProactiveSuggestion(cellId, trigger, draw)
  \/ \E r \in 1..MaxRequests, answer \in ProviderAnswers : ProviderAnswer(r, answer)
  \/ \E cellId \in TwoSugCellIds : LikeClick(cellId)
  \/ \E cellId \in TwoSugCellIds : DislikeClick(cellId)
  \/ \E cellId \in TwoSugCellIds : DismissClick(cellId)
  \/ \E cellId \in TwoSugCellIds : DeleteCell(cellId) /\ UNCHANGED <<parser, chat>>

SpecSugTwo == InitSugTwo /\ [][NextSugTwo]_vars

----------------------------------------------------------------------------
(* The suggestion engine over a restart of the page *)

MaxRestarts == 1    \* restarts per behaviour

\* the page is loaded again: the module initialisers run, the requests in
\* flight and the suggestion containers are gone, the storage stays, and main
\* calls loadSuggestionMemory
Restart ==
  /\ sug.restarts < MaxRestarts
  /\ LET r == loadSuggestionMemory(localStorage, SugInit.suggestionMemory)
     IN /\ localStorage' = r.ls
        /\ sug' = [SugInit EXCEPT
                     !.suggestionMemory = Revive(r.memory),
                     !.now = sug.now, !.created = sug.created, !.updates = sug.updates,
                     !.restarts = sug.restarts + 1,
                     !.everDisliked = sug.everDisliked \cup sug.dislikedSuggestions]
  /\ UNCHANGED <<cells, cellCounter, monaco, monacoInstances, cellDebounceTimers,
                 timeouts, attachRetryTimers, quotaExceeded, pendingAddCells, loadState, hist,
                 parser, chat>>

NextSugRestart ==
  \/ NextSug
  \/ Restart

SpecSugRestart == InitSug /\ [][NextSugRestart]_vars

----------------------------------------------------------------------------
(* The debounce of the editor's change event as a state machine *)

MaxEdits == 3       \* change events per behaviour
MaxClock == 2500    \* the clock stops here

\* two code cells whose editors exist and have their listeners attached, and
\* a markdown cell, which has no editor
DebounceCells ==
  LET S == AddAll(EmptyStore, <<[code |-> <<"a">>, type |-> "js", renderMd |-> FALSE, outputs |-> <<>>],
                                [code |-> <<"a">>, type |-> "js", renderMd |-> FALSE, outputs |-> <<>>],
                                [code |-> <<"m">>, type |-> "md", renderMd |-> TRUE, outputs |-> <<>>]>>)
  IN [S EXCEPT !.instances = [id \in {S.cells[k].id : k \in {j \in DOMAIN S.cells : S.cells[j].type = "js"}}
                                |-> <<"a">>],
               !.retries = {}]

\* texts the editor holds after a change
EditedTexts ==
  {TriggerText("setTimeout"), <<"x">> \o TriggerText("setTimeout")}

\* time between two events
TimeSteps == {500, DEBOUNCE_DELAY}

InitDebounce ==
  /\ Holds(DebounceCells)
  /\ loadState = LoadIdle
  /\ parser = ParserIdle
  /\ sug = SugInit
  /\ chat = ChatInit

\* the editor of a cell reports a change of its content: the listener calls
\* handleCellCodeChange
EditorChange(cellId, text) ==
  /\ cellId \in DOMAIN monacoInstances
  /\ sug.edits < MaxEdits
  /\ Commit(handleCellCodeChange([St EXCEPT !.instances[cellId] = text], cellId,
                                 sug.now, sug.edits + 1))
  /\ sug' = [Quiet(sug) EXCEPT
               !.edits = @ + 1,
               !.lastEdit = [k \in DOMAIN @ \cup {cellId} |->
                               IF k = cellId THEN [at |-> sug.now, no |-> sug.edits + 1]
                               ELSE @[k]]]
  /\ UNCHANGED <<loadState, parser, chat>>

\* the host runs a pending task whose delay has passed
DebounceFires(t, draw) ==
  /\ t \in timeouts
  /\ t.due <= sug.now
  /\ LET r == debounceCallback(St, sug, t, draw)
     IN /\ Commit(r.S)
        /\ sug' = [r.G EXCEPT !.evaluations =
                       Append(@, [cell |-> t.cell, at |-> sug.now, no |-> sug.edits])]
        /\ Len(sug'.requests) <= MaxRequests
  /\ UNCHANGED <<loadState, parser, chat>>

\* time passes
Elapse(d) ==
  /\ sug.now + d <= MaxClock
  /\ sug' = [Quiet(sug) EXCEPT !.now = @ + d]
  /\ UNCHANGED <<storeVars, parser, chat>>

NextDebounce ==
  \/ \E cellId \in DOMAIN DebounceCells.instances, text \in EditedTexts :
       EditorChange(cellId, text)
  \/ \E t \in timeouts :
       \E draw \in Draws(MemoryGet(sug, "setTimeout"), sug.dislikedSuggestions) :
         DebounceFires(t, draw)
  \/ \E d \in TimeSteps : Elapse(d)
  \/ \E cellId \in DOMAIN DebounceCells.instances : DeleteCell(cellId) /\ UNCHANGED <<parser, chat>>

SpecDebounce == InitDebounce /\ [][NextDebounce]_vars

----------------------------------------------------------------------------
(* The start of the suggestion memory: main calls loadSuggestionMemory on    *)
(* the value that an earlier page left under the key                         *)

MaxEntries == 2     \* elements of a stored array

StoredSuggestion(id, snippet, score) ==
  JObj([id |-> JStr(id), trigger |-> JStr("setTimeout"),
        suggestion |-> JStr(snippet), score |-> JNum(score)])

\* elements of a stored array: entries of the Map that saveSuggestionMemory
\* writes, and values that are no such entries
StoredElements ==
  { JArr(<<JStr("setTimeout"), JArr(<<>>)>>),
    JArr(<<JStr("setTimeout"), JArr(<<StoredSuggestion("sug-1", <<"x">>, 10)>>)>>),
    JArr(<<JStr("fetch"),
           JArr(<<StoredSuggestion("sug-1", <<"x">>, 10),
                  StoredSuggestion("sug-2", <<"y">>, 3)>>)>>),
    JArr(<<JStr("setTimeout"), JNum(5)>>),
    JArr(<<JStr("setTimeout"), JArr(<<JNull>>)>>),
    JArr(<<JStr("setTimeout")>>),
    JArr(<<>>),
    JObj(<<>>),
    JNull,
    JNum(5),
    JStr(<<"a">>) }

\* values found under the suggestion key when the page starts
StoredSuggestionsAtStart ==
  { NoItem, BadText(""), BadText("[[oops"),
    JsonText(JNull), JsonText(JNum(5)), JsonText(JStr(<<>>)),
    JsonText(JStr(<<"a", "b">>)), JsonText(JObj(<<>>)),
    JsonText(JObj([setTimeout |-> JArr(<<>>)])) } \cup
  { JsonText(JArr(es)) : es \in SeqsUpTo(StoredElements, MaxEntries) }

InitSugLoad ==
  /\ \E item \in StoredSuggestionsAtStart :
       Holds([EmptyStore EXCEPT !.monaco = FALSE, !.ls[SUGGESTION_MEMORY_KEY] = item])
  /\ loadState = LoadIdle
  /\ parser = ParserIdle
  /\ sug = SugInit
  /\ chat = ChatInit

\* main calls loadSuggestionMemory
LoadSuggestionMemory ==
  /\ sug.startup.pc = "start"
  /\ LET r == loadSuggestionMemory(localStorage, sug.suggestionMemory)
     IN /\ localStorage' = r.ls
        /\ sug' = [sug EXCEPT !.suggestionMemory = r.memory,
                              !.startup = [pc |-> "loaded",
                                           item |-> localStorage[SUGGESTION_MEMORY_KEY],
                                           result |-> r.result]]
  /\ UNCHANGED <<cells, cellCounter, monaco, monacoInstances, cellDebounceTimers,
                 timeouts, attachRetryTimers, quotaExceeded, pendingAddCells, loadState, hist,
                 parser, chat>>

NextSugLoad == LoadSuggestionMemory

SpecSugLoad == InitSugLoad /\ [][NextSugLoad]_vars

----------------------------------------------------------------------------
(* The chat as a state machine *)

\* the messages the user sends, trimmed and not empty
ChatMessages ==
  {<<"p", "l", "a", "y", " ", "a", " ", "g", "a", "m", "e">>,
   <<"S", "t", "o", "p", " ", "p", "l", "a", "y", "i", "n", "g">>,
   <<"7">>,
   <<"4", "2">>,
   <<"I", " ", "H", "A", "T", "E", " ", "t", "h", "i", "s", "!">>,
   <<"t", "h", "a", "n", "k", "s", ",", " ", "c", "o", "o", "l", "?">>,
   <<"h", "e", "l", "l", "o">>,
   <<"a", "d", "d", " ", "c", "o", "d", "e">>,
   <<"r", "u", "n", " ", "a", "l", "l">>}

\* Math.floor(Math.random() * 100) + 1
SecretNumbers == {7, 42}

\* Math.random() * 100, in points
ComplianceDraws == {0, 99}

InitChat ==
  /\ Holds(SugCells)
  /\ loadState = LoadIdle
  /\ parser = ParserIdle
  /\ sug = SugInit
  /\ chat = ChatInit

\* handleSendMessage calls processChatMessage
ProcessChatMessage(message, draw, secret) ==
  /\ chat.sent < MaxMessages
  /\ LET r == processChatMessage(chat, St, message, draw * Scale, secret)
     IN /\ r.S.cellCounter <= MaxCounter
        /\ chat' = r.C
        /\ Commit(r.S)
        /\ loadState' = IF r.S = St THEN loadState ELSE Observe(loadState)
  /\ UNCHANGED <<parser, sug>>

\* the provider answers the call of processChatMessage
AnswerReturns(k, ok) ==
  /\ k \in DOMAIN chat.requests
  /\ chat.requests[k] = "answer"
  /\ chat' = answerReturns(chat, k, ok)
  /\ UNCHANGED <<storeVars, parser, sug>>

\* the provider answers the call of generateAlternativeOrRefusalResponse
RefusalReturns(k, ok) ==
  /\ k \in DOMAIN chat.requests
  /\ chat.requests[k] = "refusal"
  /\ chat' = refusalReturns(chat, k, ok)
  /\ UNCHANGED <<storeVars, parser, sug>>

\* the 30-second loop runs with the chat panel open
DecayTick ==
  /\ chat.ticks < MaxTicks
  /\ chat' = [decayEmotions(chat) EXCEPT !.ticks = @ + 1]
  /\ UNCHANGED <<storeVars, parser, sug>>

NextChat ==
  \/ \E message \in ChatMessages, draw \in ComplianceDraws, secret \in SecretNumbers :
       ProcessChatMessage(message, draw, secret)
  \/ \E k \in 1..MaxMessages, ok \in BOOLEAN : AnswerReturns(k, ok)
  \/ \E k \in 1..MaxMessages, ok \in BOOLEAN : RefusalReturns(k, ok)
  \/ DecayTick

SpecChat == InitChat /\ [][NextChat]_vars

----------------------------------------------------------------------------
(* Properties of the store *)

\* C1: the cell sequence is the surviving cells in insertion order: its ids
\* are the ids ever inserted, in the order of insertion, without the removed
\* ones (a load's clearing of the list removes every cell it held)
C1_InsertionOrder ==
  Ids(cells) = SeqFilter(hist.inserted, Range(hist.inserted) \ hist.removed)

\* a cell was removed from between two cells that are still there
C1_Witness ==
  /\ Len(cells) >= 2
  /\ \E r \in hist.removed : cells[1].id < r /\ r < cells[2].id

\* C3: a load that reads the item written by the last save, and during whose
\* suspension no other handler ran, returns true with a cell sequence equal
\* to the saved one in length, order, kind, content, mode and outputs
C3_SaveLoadRoundTrip ==
  (loadState.pc = "returned" /\ loadState.saved.ok /\ ~loadState.interleaved)
    => (loadState.result /\ View(cells) = loadState.saved.view)

\* a saved js cell with an output and a saved markdown cell were restored
C3_Witness ==
  /\ loadState.pc = "returned" /\ loadState.saved.ok /\ ~loadState.interleaved
  /\ Len(cells) >= 2
  /\ \E i \in DOMAIN cells : cells[i].type = "js" /\ cells[i].outputs # <<>>
  /\ \E i \in DOMAIN cells : cells[i].type = "md" /\ cells[i].mode = "render"
  /\ \A i \in DOMAIN cells : cells[i].id \notin hist.removed

\* the stored value does not decode to an object holding an array of cells
HasCellsArray(v) ==
  v.t = "obj" /\ "cells" \in DOMAIN v.v /\ v.v["cells"].t = "arr"

Corrupt(item) ==
  item.kind # "none" /\ (~JSONparse(item).ok \/ ~HasCellsArray(JSONparse(item).value))

\* C4: a load of a value that does not decode, or decodes to a value without
\* an array of cell records, returns absent and has deleted the key; a load
\* of a key never set returns absent
C4_LoadPurgesCorrupt ==
  loadState.pc = "returned" =>
    /\ Corrupt(loadState.item) =>
         ~loadState.result /\ localStorage[NOTEBOOK_MEMORY_KEY] = NoItem
    /\ loadState.item = NoItem => ~loadState.result

\* C10: ids come from a strictly increasing counter: the ids ever assigned
\* are strictly increasing in the order of assignment (so none is assigned
\* twice, removed or cleared ones included), all below the counter, and the
\* cells of the store have pairwise distinct ids
C10_UniqueIds ==
  /\ \A i, j \in DOMAIN hist.inserted : i < j => hist.inserted[i] < hist.inserted[j]
  /\ \A i \in DOMAIN hist.inserted : hist.inserted[i] < cellCounter
  /\ \A i, j \in DOMAIN cells : i # j => cells[i].id # cells[j].id

\* cells were inserted after a removal and after a load cleared the store
C10_Witness ==
  /\ loadState.pc = "returned" /\ loadState.result
  /\ hist.removed # {}
  /\ cells # <<>>
  /\ Len(hist.inserted) >= 3

\* the store was cleared by the load that read item: it decodes to an
\* object with an array under `cells`
Cleared(item) ==
  /\ ItemTruthy(item)
  /\ JSONparse(item).ok
  /\ HasCellsArray(JSONparse(item).value)

StoredRecords(item) == GetProp(JSONparse(item).value, "cells").v

\* the cell that addCell makes of a stored record, apart from its id
RecordView(rec) ==
  LET code == GetProp(rec, "code")
      type == GetProp(rec, "type")
      mode == GetProp(rec, "mode")
      outputs == GetProp(rec, "outputs")
      t == IF type.t = "undef" THEN "js" ELSE type.v
  IN [type |-> t,
      code |-> IF code.t = "undef" THEN <<>> ELSE code.v,
      mode |-> IF t = "md"
               THEN (IF mode.t = "str" /\ mode.v = "render" THEN "render" ELSE "edit")
               ELSE Undefined,
      outputs |-> IF outputs.t = "undef" THEN <<>> ELSE outputs.v]

\* C11: the replacement done by a load is atomic: in every state in which a
\* load that cleared the store is suspended or has returned, the cell
\* sequence is the sequence before the load (the cleared cells are gone, so
\* both are empty) or the complete list of the stored records, in order; it
\* is not a strict prefix of them and holds no cell of another insert
C11_AtomicLoad ==
  (loadState.pc \in {"awaiting", "returned"} /\ Cleared(loadState.item)) =>
    LET records == StoredRecords(loadState.item)
    IN \/ loadState.empty /\ cells = <<>>
       \/ /\ Len(cells) = Len(records)
          /\ \A i \in DOMAIN records :
               CanRead(records[i]) /\ CellView(cells[i]) = RecordView(records[i])

\* C12: a load does not write the notebook key between the clearing of the
\* store and the insertion of the last stored cell
C12_NoSaveDuringLoad ==
  loadState.pc \in {"awaiting", "returned"} => ~loadState.partial

\* the store, the storage having room
Roomy(S) == [S EXCEPT !.quota = FALSE]

\* C13: a failing write of the notebook key is caught: in a step taken when
\* setItem throws, no error leaves the handler, the key is not written, an
\* insert, a remove or a resumed insert ends with the cells it ends with
\* when the write succeeds, and no step writes the key later on its own
C13_SaveFailureCaught ==
  [][quotaExceeded =>
       /\ ~hist'.uncaught
       /\ localStorage'[NOTEBOOK_MEMORY_KEY] \in {localStorage[NOTEBOOK_MEMORY_KEY], NoItem}
       /\ \A a \in NewCellArgs :
            AddCell(a) =>
              LET r == addCell(Roomy(St), JStr(a.code), JStr(a.type), a.renderMd,
                               JArr(a.outputs), FALSE)
              IN cells' = r.S.cells /\ pendingAddCells' = r.S.pend
       /\ \A cellId \in 0..cellCounter :
            DeleteCell(cellId) => cells' = deleteCell(Roomy(St), cellId).cells
       /\ (LoaderResolve /\ loadState.pc # "awaiting") =>
            cells' = cells /\ pendingAddCells' = <<>> /\ monaco'
       /\ QuotaChange => localStorage' = localStorage]_vars

\* inserts were made and one was removed while setItem threw, before any
\* load: the cells are there, the key was never written
C13_Witness ==
  /\ quotaExceeded
  /\ loadState.count = 0 /\ loadState.pc = "idle"
  /\ localStorage[NOTEBOOK_MEMORY_KEY] = NoItem
  /\ cells # <<>> /\ pendingAddCells = <<>>
  /\ hist.removed # {}

\* C14: deleteCell of an id that is not in the store is a no-op: the cells,
\* the counter and the editor views are unchanged, no error leaves the
\* handler and the notebook key is not written
C14_RemoveAbsentNoOp ==
  [][\A cellId \in 0..cellCounter :
       (FindIndex(cells, cellId) = 0 /\ DeleteCell(cellId)) =>
         /\ cells' = cells
         /\ cellCounter' = cellCounter
         /\ monacoInstances' = monacoInstances
         /\ localStorage' = localStorage
         /\ hist' = hist]_vars

\* a handler ran while the load was suspended and left the restored cell,
\* the counter and the removed ids as they were: only a deleteCell of an id
\* that is not in the store does that
C14_Witness ==
  /\ loadState.pc = "awaiting" /\ loadState.interleaved
  /\ cellCounter = 1 /\ Len(cells) = 1
  /\ hist.removed = {}
  /\ localStorage[NOTEBOOK_MEMORY_KEY] = loadState.item

\* C15: when deleteCell has removed a cell, no scheduled work of that cell is
\* pending: its debounce timer is cleared, and no other timer whose callback
\* refers to the cell (the retry of attachEditorListeners) is left to fire
C15_NoWorkAfterRemove ==
  [][\A cellId \in 0..cellCounter :
       (FindIndex(cells, cellId) > 0 /\ DeleteCell(cellId)) =>
         /\ cellId \notin DOMAIN cellDebounceTimers'
         /\ \A t \in timeouts' : t.cell # cellId
         /\ cellId \notin attachRetryTimers']_vars

\* the stored value lists the cells cs, in order, each with its kind, its
\* content, its mode (no mode for a code cell) and its outputs
Lists(item, cs) ==
  /\ Cleared(item)
  /\ LET records == StoredRecords(item)
     IN /\ Len(records) = Len(cs)
        /\ \A i \in DOMAIN cs :
             /\ CanRead(records[i])
             /\ GetProp(records[i], "type") = JStr(cs[i].type)
             /\ GetProp(records[i], "code") = JStr(cs[i].code)
             /\ GetProp(records[i], "mode") =
                  (IF cs[i].mode = Undefined THEN JUndef ELSE JStr(cs[i].mode))
             /\ GetProp(records[i], "outputs") = JArr(cs[i].outputs)

\* C21: every mutation of the store is followed by a save: when an insert
\* has run to its end (at once, or when the editor library has loaded) or a
\* remove has taken a cell out, and the write succeeds, the stored snapshot
\* lists exactly the cells of the store, in order, with kind, content, mode
\* and outputs
C21_MutationSaved ==
  [][(~quotaExceeded /\
      \/ cells' # cells /\ pendingAddCells' = pendingAddCells
                        /\ \E a \in NewCellArgs : AddCell(a)
      \/ cells' # cells /\ \E cellId \in 0..cellCounter : DeleteCell(cellId)
      \/ LoaderResolve /\ loadState.pc # "awaiting") =>
       Lists(localStorage'[NOTEBOOK_MEMORY_KEY], cells')]_vars

\* inserts and a remove have been saved: the key lists a code cell with an
\* output and a markdown cell, a cell before them being removed
C21_Witness ==
  /\ ~quotaExceeded
  /\ loadState.count = 0
  /\ pendingAddCells = <<>>
  /\ hist.removed = {0}
  /\ Len(cells) = 2
  /\ cells[1].outputs # <<>>
  /\ cells[2].type = "md"
  /\ Lists(localStorage[NOTEBOOK_MEMORY_KEY], cells)

\* the load of main returns in this step
LoadReturns == loadState.pc # "returned" /\ loadState'.pc = "returned"

\* C22: on startup the demo state is set up if and only if the load returned
\* absent: a step in which the load returns sets it up exactly when the
\* result is false, no other step sets it up, and it is not set up before
C22_DemoIffAbsent ==
  [][/\ LoadReturns => (loadState'.demo <=> ~loadState'.result)
     /\ ~LoadReturns => (loadState'.demo <=> loadState.demo)
     /\ loadState.count = 0 => ~loadState.demo]_vars

\* a load that was suspended has restored the two stored records and the
\* demo state is not used after it
C22_Witness ==
  /\ loadState.count = 1
  /\ loadState.pc = "idle"
  /\ ~loadState.demo
  /\ Len(cells) >= 2

----------------------------------------------------------------------------
(* Properties of the interchange format *)

\* position by position: same kind, same content up to surrounding
\* whitespace, same markdown mode, same outputs of a code cell
SameCells(parsed, cs) ==
  /\ Len(parsed) = Len(cs)
  /\ \A k \in DOMAIN cs :
       /\ parsed[k].type = cs[k].type
       /\ parsed[k].code = Trim(cs[k].code)
       /\ cs[k].type = "md" => parsed[k].mode = cs[k].mode
       /\ cs[k].type = "js" => parsed[k].outputs = cs[k].outputs

\* C2: parsing the text that the export produces for the cells of the store
\* (all of them non-empty) yields the same cells: same length and, position
\* by position, same kind, content, mode and outputs
C2_ExportParseRoundTrip ==
  (parser.pc = "done" /\ parser.src) => SameCells(parser.cellsData, cells)

\* C7: an output block with text that closes when a code cell has been
\* emitted attaches exactly one log output, carrying the block's trimmed
\* text, at the end of the outputs of the most recently emitted code cell,
\* and changes nothing else
C7_OutputAttach ==
  (parser.ev.closed /\ parser.ev.hadJs /\ parser.ev.text # <<>>)
    => parser.cellsData =
         [parser.ev.before EXCEPT ![LastJs(parser.ev.before)].outputs =
            Append(@, [type |-> "log", data |-> parser.ev.text])]

\* C8: the text of an output block that closed when no code cell had been
\* emitted is in no output of any cell, whatever follows it
C8_DroppedOutput ==
  \A k \in DOMAIN parser.attached : parser.attached[k].lines \cap parser.dropped = {}

\* C9: every code cell of a parse result has non-empty content (a code block
\* without a non-blank line emits no cell)
C9_NoEmptyCodeCell ==
  \A k \in DOMAIN parser.cellsData :
    parser.cellsData[k].type = "js" => parser.cellsData[k].code # <<>>

\* the line is one of the markers that processLine tests for
IsMarker(line) ==
  LET trimmed == Trim(line)
  IN \/ trimmed \in {CODE_STARTS, CODE_ENDS}
     \/ StartsWith(trimmed, MARKDOWN)
     \/ StartsWith(trimmed, OUTPUT)
     \/ EndsWith(trimmed, CLOSE)

\* the parser's state, by its three flags
ParserState(P) ==
  {x \in {"InCode", "InMarkdown", "InOutput"} :
     \/ x = "InCode" /\ P.inCodeBlock
     \/ x = "InMarkdown" /\ P.inMdBlock
     \/ x = "InOutput" /\ P.inOutputBlock}

\* C24: the parse is total: it is always at a line of the text or done, each
\* step moves on by one line, and after the last line the list of cells is
\* returned; and a line that is no marker and is read in state None changes
\* neither the cells emitted nor any buffer nor the state
C24_ParseTotal ==
  /\ [](parser.pc \in {"lines", "done"} /\ parser.i \in 1..(Len(parser.lines) + 1))
  /\ [][/\ parser.pc = "lines"
        /\ IF parser.i <= Len(parser.lines)
           THEN parser'.pc = "lines" /\ parser'.i = parser.i + 1
           ELSE parser'.pc = "done"
        /\ (/\ parser.i <= Len(parser.lines)
            /\ ParserState(parser) = {}
            /\ ~IsMarker(parser.lines[parser.i])) =>
             /\ parser'.cellsData = parser.cellsData
             /\ parser'.jsCodeLines = parser.jsCodeLines
             /\ parser'.mdContent = parser.mdContent
             /\ parser'.outputContent = parser.outputContent
             /\ ParserState(parser') = {}]_vars

\* a line that is no marker was read in state None after a cell was emitted
C24_Witness ==
  /\ parser.pc = "lines"
  /\ parser.i > 1
  /\ ~IsMarker(parser.lines[parser.i - 1])
  /\ ParserState(parser) = {}
  /\ parser.cellsData # <<>>

\* C25: at every point of the parse at most one of inCodeBlock, inMdBlock and
\* inOutputBlock is true
C25_OneStateAtATime == Cardinality(ParserState(parser)) <= 1

\* a markdown opener was read right after a code opener: the parser went from
\* InCode to InMarkdown
C25_Witness ==
  /\ parser.pc = "lines"
  /\ parser.i > 2
  /\ Trim(parser.lines[parser.i - 2]) = CODE_STARTS
  /\ StartsWith(Trim(parser.lines[parser.i - 1]), MARKDOWN)
  /\ ParserState(parser) = {"InMarkdown"}

\* C26: after a line that is a closing marker, the code end or a line ending
\* in the comment close, the parser is in state None whatever its state was;
\* and when a line ending in the comment close is read in InMarkdown or
\* InOutput, the non-empty text before the close is the last line of the
\* markdown cell or of the output that the line emits
C26_CloseReturnsToNone ==
  [][(parser.pc = "lines" /\ parser.i <= Len(parser.lines)) =>
       LET line == parser.lines[parser.i]
           trimmed == Trim(line)
           contentLine == Trim(StripClose(line))
           emitted == parser'.cellsData
       IN /\ (trimmed = CODE_ENDS \/ EndsWith(trimmed, CLOSE)) => ParserState(parser') = {}
          /\ (/\ EndsWith(trimmed, CLOSE)
              /\ ~StartsWith(trimmed, MARKDOWN) /\ ~StartsWith(trimmed, OUTPUT)
              /\ contentLine # <<>>) =>
               /\ parser.inMdBlock =>
                    /\ Len(emitted) = Len(parser.cellsData) + 1
                    /\ emitted[Len(emitted)].type = "md"
                    /\ EndsWith(emitted[Len(emitted)].code, contentLine)
               /\ (parser.inOutputBlock /\ HasJs(parser.cellsData)) =>
                    LET outputs == emitted[LastJs(emitted)].outputs
                    IN /\ Len(outputs) = Len(parser.cellsData[LastJs(emitted)].outputs) + 1
                       /\ EndsWith(outputs[Len(outputs)].data, contentLine)]_vars

----------------------------------------------------------------------------
(* Properties of the debounce *)

\* C27: a cell id has at most one debounce task pending, the one its map
\* entry names; an edit cancels the pending task of the cell and schedules a
\* new one, due a full delay later; and the callback runs for a cell only when
\* a full delay has passed since the cell's last edit, at most once per edit:
\* of two edits closer than the delay only the second is followed by a run
C27_OneTaskPerCell ==
  /\ [](\A t \in timeouts :
          /\ t.cell \in DOMAIN cellDebounceTimers
          /\ cellDebounceTimers[t.cell] = t.id
          /\ \A u \in timeouts : u.cell = t.cell => u = t)
  /\ [][/\ sug'.edits # sug.edits =>
             \E t \in timeouts' \ timeouts :
               /\ timeouts' \ timeouts = {t}
               /\ t.due = sug.now + DEBOUNCE_DELAY
               /\ sug'.lastEdit[t.cell].no = sug'.edits
               /\ \A u \in timeouts : u.cell = t.cell => u \notin timeouts'
        /\ Len(sug'.evaluations) > Len(sug.evaluations) =>
             LET e == sug'.evaluations[Len(sug'.evaluations)]
             IN /\ Len(sug'.evaluations) = Len(sug.evaluations) + 1
                /\ e.cell \in DOMAIN sug.lastEdit
                /\ e.at >= sug.lastEdit[e.cell].at + DEBOUNCE_DELAY
                /\ \A k \in DOMAIN sug.evaluations :
                     sug.evaluations[k].cell = e.cell =>
                       sug.evaluations[k].no < sug.lastEdit[e.cell].no]_vars

\* one cell was edited twice, the second time less than the delay after the
\* first, and the callback has run once, after the second edit
C27_Witness ==
  /\ sug.edits = 2
  /\ \E c \in DOMAIN sug.lastEdit :
       /\ DOMAIN sug.lastEdit = {c}
       /\ sug.lastEdit[c].at \in 1..(DEBOUNCE_DELAY - 1)
       /\ sug.evaluations = <<[cell |-> c, at |-> sug.lastEdit[c].at + DEBOUNCE_DELAY, no |-> 2]>>
  /\ timeouts = {}
  /\ Len(sug.requests) = 1

----------------------------------------------------------------------------
(* Properties of the suggestion engine *)

\* positions of the suggestions of a list whose snippet is not disliked
Eligible(list, disliked) == {k \in DOMAIN list : list[k].suggestion \notin disliked}

\* C5: a call of selectSuggestion returns no suggestion whose snippet is in
\* the dislike set; it returns none exactly when no suggestion of the list is
\* eligible; with exactly one eligible suggestion it returns that one,
\* whatever the draw; and what it returns is an element of the list
C5_SelectEligible ==
  sug.lastSelect.called =>
    LET list == sug.lastSelect.list
        disliked == sug.lastSelect.disliked
        found == sug.lastSelect.found
    IN /\ found.ok => /\ found.view.suggestion \notin disliked
                      /\ \E k \in DOMAIN list : list[k] = found.view
       /\ ~found.ok <=> Eligible(list, disliked) = {}
       /\ \A k \in Eligible(list, disliked) :
            Eligible(list, disliked) = {k} => found.ok /\ found.view = list[k]

\* a suggestion was selected from a list that also holds a disliked one
C5_Witness ==
  /\ sug.lastSelect.called
  /\ sug.lastSelect.found.ok
  /\ \E k \in DOMAIN sug.lastSelect.list :
       sug.lastSelect.list[k].suggestion \in sug.lastSelect.disliked

C16_DeletedCellCancels ==
  [][\A r \in 1..MaxRequests, answer \in ProviderAnswers :
       (/\ r \in DOMAIN sug.requests
        /\ FindIndex(cells, sug.requests[r].cell) = 0
        /\ ProviderAnswer(r, answer)) =>
         /\ sug'.suggestionMemory = sug.suggestionMemory
         /\ localStorage' = localStorage
         /\ sug'.displayed = sug.displayed]_vars

\* C17: at most one suggestion request is in flight for a cell: while one is
\* waiting for the provider, a debounce firing for the cell issues no second
C17_OneRequestPerCell ==
  \A i, j \in DOMAIN sug.requests :
    sug.requests[i].cell = sug.requests[j].cell => i = j

\* the ids of the suggestions of a memory
SuggestionIds(memory) ==
  UNION {{memory[t][k].id : k \in DOMAIN memory[t]} : t \in DOMAIN memory}

\* C18: a suggestion that the provider's answer creates has score 10, is
\* appended at the end of its trigger's list, and has an id that no other
\* suggestion of the memory has, also when two are created at one clock value
C18_FreshSuggestion ==
  [][\A r \in 1..MaxRequests, answer \in ProviderAnswers :
       (/\ ProviderAnswer(r, answer)
        /\ sug'.suggestionMemory # sug.suggestionMemory) =>
         LET trigger == sug.requests[r].trigger
             before == MemoryGet(sug, trigger)
             after == MemoryGet(sug', trigger)
         IN /\ Len(after) = Len(before) + 1
            /\ SubSeq(after, 1, Len(before)) = before
            /\ after[Len(after)].score = 10
            /\ after[Len(after)].id \notin SuggestionIds(sug.suggestionMemory)]_vars

\* the set of disliked snippets after updateSuggestionScore(suggestionId,
\* trigger, delta) is called with the memory and the set of G
DislikedAfter(G, suggestionId, trigger, delta) ==
  LET list == MemoryGet(G, trigger)
      k == FindSuggestion(list, suggestionId)
  IN IF k > 0 /\ delta < 0
     THEN G.dislikedSuggestions \cup {list[k].suggestion}
     ELSE G.dislikedSuggestions

Unusable(answer) ==
  \/ ~answer.ok
  \/ \A k \in DOMAIN answer.text : answer.text[k] \in Whitespace

\* C20: when the generation fails (the provider's call fails, or its answer
\* holds no snippet), the answer leaves the suggestion memory as it was,
\* writes nothing to storage, displays nothing, and no error leaves the handler
C20_FailureYieldsNothing ==
  [][\A r \in 1..MaxRequests, answer \in ProviderAnswers :
       (Unusable(answer) /\ ProviderAnswer(r, answer)) =>
         /\ sug'.suggestionMemory = sug.suggestionMemory
         /\ localStorage' = localStorage
         /\ sug'.displayed = sug.displayed
         /\ ~sug'.uncaught]_vars

\* a generation has just failed while the memory held a stored suggestion
C20_Witness ==
  /\ sug.lastFailed
  /\ sug.suggestionMemory # <<>>
  /\ localStorage[SUGGESTION_MEMORY_KEY] # NoItem

\* the stored value decodes to a mapping from trigger to a list of
\* suggestions, written as the list of its [trigger, list] entries; a
\* suggestion is an object with a text id, trigger and snippet and a numeric
\* score
IsSuggestionMap(item) ==
  /\ JSONparse(item).ok
  /\ LET v == JSONparse(item).value
         IsSuggestion(x) ==
           /\ x.t = "obj"
           /\ GetProp(x, "id").t = "str"
           /\ GetProp(x, "trigger").t = "str"
           /\ GetProp(x, "suggestion").t = "str"
           /\ GetProp(x, "score").t = "num"
     IN /\ v.t = "arr"
        /\ \A i \in DOMAIN v.v :
             /\ v.v[i].t = "arr"
             /\ Len(v.v[i].v) = 2
             /\ v.v[i].v[1].t = "str"
             /\ v.v[i].v[2].t = "arr"
             /\ \A k \in DOMAIN v.v[i].v[2].v : IsSuggestion(v.v[i].v[2].v[k])

\* C23: loading the suggestion memory does not throw, and a stored value
\* that is corrupt (it does not decode, or not to a mapping from trigger to
\* a list of suggestions) is removed from storage and leaves the memory empty
C23_LoadSuggestionsPurgesCorrupt ==
  (sug.startup.pc = "loaded" /\ sug.startup.item # NoItem
     /\ ~IsSuggestionMap(sug.startup.item)) =>
    /\ localStorage[SUGGESTION_MEMORY_KEY] = NoItem
    /\ sug.suggestionMemory = <<>>

\* C28: for the list of every trigger and every draw r with 0 <= r < total,
\* total the sum of the eligible scores (r counted in halves), selectSuggestion
\* returns the first eligible suggestion at which r less the scores walked so
\* far is <= 0; and when every eligible score is at least 1 the loop itself
\* returns, so the fallback to the first eligible suggestion is not taken
C28_WeightedWalk ==
  \A trigger \in DOMAIN sug.suggestionMemory :
    LET suggestions == sug.suggestionMemory[trigger]
        validSuggestions == FilterValid(suggestions, sug.dislikedSuggestions)
        totalScore == SumScores(validSuggestions)
        walked(i) == SumScores(SubSeq(validSuggestions, 1, i))
    IN \A draw \in 0..(2 * totalScore - 1) :
         LET stops == {i \in DOMAIN validSuggestions : draw - 2 * walked(i) <= 0}
             first == CHOOSE i \in stops : \A j \in stops : i <= j
         IN /\ stops # {} =>
                 selectSuggestion(suggestions, sug.dislikedSuggestions, draw)
                   = Some(validSuggestions[first])
            /\ (\A i \in DOMAIN validSuggestions : validSuggestions[i].score >= 1) =>
                 /\ stops # {}
                 /\ Walk(validSuggestions, draw).ok

\* selectSuggestion was called on a list with two eligible suggestions and
\* walked past the first one
C28_Witness ==
  /\ sug.lastSelect.called
  /\ LET validSuggestions == FilterValid(sug.lastSelect.list, sug.lastSelect.disliked)
     IN /\ Len(validSuggestions) = 2
        /\ sug.lastSelect.found = Some(validSuggestions[2])

\* C29: no step removes a suggestion from the memory, changes the id, the
\* trigger or the snippet of one, or changes the order of a trigger's list:
\* every list keeps its suggestions in their places and new ones come after
\* them; and a step changes the score of at most one suggestion, the one that
\* the call of updateSuggestionScore in that step found
C29_SuggestionsKept ==
  [][LET old == sug.suggestionMemory
         new == sug'.suggestionMemory
         rescored == {<<t, k>> \in (DOMAIN old) \X (1..MaxSuggestions) :
                        k \in DOMAIN old[t] /\ new[t][k].score # old[t][k].score}
     IN /\ DOMAIN old \subseteq DOMAIN new
        /\ \A t \in DOMAIN old :
             /\ Len(new[t]) >= Len(old[t])
             /\ \A k \in DOMAIN old[t] :
                  /\ new[t][k].id = old[t][k].id
                  /\ new[t][k].trigger = old[t][k].trigger
                  /\ new[t][k].suggestion = old[t][k].suggestion
        /\ rescored # {} =>
             /\ sug'.lastUpdate.called
             /\ rescored = {<<sug'.lastUpdate.trigger, sug'.lastUpdate.k>>}]_vars

\* the memory holds two suggestions of one trigger and the score of the
\* second one was changed by updateSuggestionScore
C29_Witness ==
  /\ sug.lastUpdate.called
  /\ sug.lastUpdate.k = 2
  /\ sug.lastUpdate.old = BASE_SCORE
  /\ LET suggestions == sug.suggestionMemory[sug.lastUpdate.trigger]
     IN /\ Len(suggestions) = 2
        /\ suggestions[1].score = BASE_SCORE
        /\ suggestions[2].score # BASE_SCORE

\* C30: every cell of the store has mode undefined when it is a code cell and
\* mode edit or render when it is a markdown cell, and is marked as executed
\* whenever it has outputs
C30_CellShape ==
  \A k \in DOMAIN cells :
    /\ cells[k].type = "js" => cells[k].mode = Undefined
    /\ cells[k].type = "md" => cells[k].mode \in {"edit", "render"}
    /\ cells[k].outputs # <<>> => cells[k].isExecuted

\* after an insert, a remove and a load the store holds a code cell with
\* outputs and a markdown cell
C30_Witness ==
  /\ loadState.count = 1
  /\ loadState.pc # "awaiting"
  /\ hist.removed # {}
  /\ \E k \in DOMAIN cells : cells[k].type = "js" /\ cells[k].outputs # <<>>
  /\ \E k \in DOMAIN cells : cells[k].type = "md" /\ cells[k].mode = "render"

\* C31: a step that writes the notebook key writes one record per cell of the
\* store, in order, whose code is the text of the cell's editor when the cell
\* has one and the cell's stored code when it has none
C31_SnapshotTakesLiveText ==
  [][localStorage'[NOTEBOOK_MEMORY_KEY] # localStorage[NOTEBOOK_MEMORY_KEY] =>
       /\ Cleared(localStorage'[NOTEBOOK_MEMORY_KEY])
       /\ LET records == StoredRecords(localStorage'[NOTEBOOK_MEMORY_KEY])
          IN /\ Len(records) = Len(cells')
             /\ \A i \in DOMAIN cells' :
                  GetProp(records[i], "code") =
                    IF cells'[i].id \in DOMAIN monacoInstances'
                    THEN JStr(monacoInstances'[cells'[i].id])
                    ELSE JStr(cells'[i].code)]_vars

\* the stored snapshot holds the edited text of a code cell, which differs
\* from the cell's stored code, and the stored code of the markdown cell
C31_Witness ==
  /\ Cleared(localStorage[NOTEBOOK_MEMORY_KEY])
  /\ hist.removed # {}
  /\ LET records == StoredRecords(localStorage[NOTEBOOK_MEMORY_KEY])
     IN /\ Len(records) = 2
        /\ Len(cells) = 2
        /\ cells[1].id \in DOMAIN monacoInstances
        /\ GetProp(records[1], "code") = JStr(TriggerText("setTimeout"))
        /\ cells[1].code = <<"a">>
        /\ cells[2].id \notin DOMAIN monacoInstances
        /\ GetProp(records[2], "code") = JStr(cells[2].code)

\* C32: the flush at the end of the input emits what the closing marker of
\* the open block would have emitted: the result is the one of the same text
\* with that marker added; the pending code lines make a code cell, the
\* pending markdown text makes a markdown cell after it, and the pending
\* output text is attached, after both, to the last code cell
C32_EndFlushesOpenBlock ==
  [][(parser.pc = "lines" /\ parser.i > Len(parser.lines)) =>
       LET P == parser
           emitted == parser'.cellsData
           closing == IF P.inCodeBlock THEN CODE_ENDS ELSE CLOSE
           code == Trim(Join(P.jsCodeLines, <<"\n">>))
           md == Trim(P.mdContent)
           out == Trim(P.outputContent)
           nJs == IF Len(P.jsCodeLines) > 0 THEN 1 ELSE 0
           nMd == IF md # <<>> THEN 1 ELSE 0
       IN /\ parser'.pc = "done"
          /\ ParserState(P) # {} =>
               emitted = flushAtEnd(processLine(P, closing)).cellsData
          /\ Len(emitted) = Len(P.cellsData) + nJs + nMd
          /\ nJs = 1 =>
               /\ emitted[Len(P.cellsData) + 1].type = "js"
               /\ emitted[Len(P.cellsData) + 1].code = code
          /\ nMd = 1 =>
               /\ emitted[Len(emitted)].type = "md"
               /\ emitted[Len(emitted)].code = md
          /\ (out # <<>> /\ HasJs(emitted)) =>
               LET outputs == emitted[LastJs(emitted)].outputs
               IN /\ outputs # <<>>
                  /\ outputs[Len(outputs)].data = out]_vars

\* the text ended inside an output block that follows a code cell, and the
\* block's text is the last output of that cell
C32_Witness ==
  /\ parser.pc = "done"
  /\ parser.inOutputBlock
  /\ parser.lines # <<>>
  /\ ~IsMarker(parser.lines[Len(parser.lines)])
  /\ HasJs(parser.cellsData)
  /\ LET outputs == parser.cellsData[LastJs(parser.cellsData)].outputs
     IN /\ outputs # <<>>
        /\ outputs[Len(outputs)].data = Trim(parser.lines[Len(parser.lines)])

\* C33: a snippet that was disliked, in this run of the page or in one before
\* it, is the snippet of no suggestion that selectSuggestion returns later
C33_DislikeSurvivesRestart ==
  (sug.lastSelect.called /\ sug.lastSelect.found.ok) =>
    sug.lastSelect.found.view.suggestion \notin (sug.everDisliked \cup sug.dislikedSuggestions)

\* C34: no step shows in a cell, or adds to the memory, a suggestion whose
\* snippet is in the dislike set, also when every stored suggestion of the
\* trigger is disliked and the provider answers with a disliked snippet
C34_DislikedNeverShownOrAdded ==
  [][LET old == sug.suggestionMemory
         new == sug'.suggestionMemory
     IN /\ \A cellId \in DOMAIN sug'.displayed :
             (cellId \notin DOMAIN sug.displayed \/ sug'.displayed[cellId] # sug.displayed[cellId])
               => sug'.displayed[cellId].suggestion \notin sug.dislikedSuggestions
        /\ \A t \in DOMAIN new :
             \A k \in DOMAIN new[t] :
               (t \notin DOMAIN old \/ k > Len(old[t]))
                 => new[t][k].suggestion \notin sug.dislikedSuggestions]_vars

\* C35: no addition to the memory is lost: the list of the trigger holds one
\* suggestion for every answer that succeeded, and the step of an answer that
\* succeeds puts its suggestion after all those the list held, which stay as
\* they were; so two requests in flight together leave both suggestions, in
\* the order of their answers
C35_NoLostAddition ==
  /\ [](Len(MemoryGet(sug, "setTimeout")) = sug.created)
  /\ [][sug'.created # sug.created =>
          LET old == MemoryGet(sug, "setTimeout")
              new == MemoryGet(sug', "setTimeout")
          IN /\ sug'.created = sug.created + 1
             /\ Len(sug'.requests) = Len(sug.requests) - 1
             /\ Len(new) = Len(old) + 1
             /\ SubSeq(new, 1, Len(old)) = old
             /\ new[Len(new)].trigger = "setTimeout"
             /\ new[Len(new)].score = BASE_SCORE
             /\ new[Len(new)].suggestion # <<>>]_vars

\* two requests made while the memory was empty have both been answered:
\* the list holds the two suggestions and each of the two cells shows one
C35_Witness ==
  /\ sug.dislikedSuggestions = {}
  /\ sug.requests = <<>>
  /\ LET list == MemoryGet(sug, "setTimeout")
     IN /\ Len(list) = 2
        /\ list[1].suggestion # list[2].suggestion
        /\ \E a, b \in DOMAIN sug.displayed :
             /\ a # b
             /\ sug.displayed[a].suggestion = list[1].suggestion
             /\ sug.displayed[b].suggestion = list[2].suggestion

----------------------------------------------------------------------------
(* Properties of the chat *)

\* C36: in every reachable state pleasure, arousal and relationship are each
\* between 0 and 100, whatever messages were sent, however often the
\* emotions decayed and whichever provider calls failed
C36_EmotionsInRange ==
  /\ chat.pleasure \in 0..(100 * Scale)
  /\ chat.arousal \in 0..(100 * Scale)
  /\ chat.relationship \in 0..(100 * Scale)

\* C37: a step of processChatMessage that, with a game active, complies with
\* a message matching the command 'stop playing' leaves no game active and
\* replies with the secret number
C37_StopPlayingStopsGame ==
  [][(/\ chat.isGameActive
      /\ chat'.sent = chat.sent + 1
      /\ chat'.last.complied
      /\ CommandTest(2, toLowerCase(chat'.last.message)))
       => (/\ ~chat'.isGameActive
           /\ chat'.reply.number = chat.secretNumber)]_vars

====
